---- MODULE Spec2Model ----
(***************************************************************************)
(* A model of the Jacques runtime: the scope chain (Environment), the      *)
(* value algebra (JacquesValue and its subclasses) and the evaluator       *)
(* (Interpreter), written from src/src/Environment.ts,                     *)
(* src/src/Interpreter.ts (first Interpreter class of the file) and the    *)
(* value classes of src/unnamed/part_002.                                  *)
(***************************************************************************)
EXTENDS Integers, Sequences, FiniteSets

VARIABLES
  envs,    \* the Environment objects allocated so far; an Environment is its index
  ret,     \* what the last handler returned or threw: [err, val]
  binary,  \* the binary expression under evaluation: operator and operand values
  arrays,  \* the JacquesArray objects allocated so far; an array is its index
  funcs,   \* the host closures allocated so far; a closure is its index
  frames,  \* the invocations in progress, innermost last; frames[1] is the program
  callStack, \* Interpreter.callStack: the environments of the calls in progress
  log,     \* the calls that have returned, in order: [func, args, val]
  parser,  \* the Parser: its tokens, position and currentToken, and its parse()
  records, \* the JacquesRecord objects allocated so far; a record is its index
  lexer,   \* the Lexer: its input, position and currentChar, and its tokens
  store    \* the JacquesNumber objects made, and the scope that refers to them

vars == <<envs, ret, binary, arrays, funcs, frames, callStack, log, parser, records,
         lexer, store>>

(***************************************************************************)
(* Bounds of the model.                                                    *)
(***************************************************************************)
MaxEnvs == 2
MaxNum == 2
MaxLen == 2
MaxArrays == 3

(***************************************************************************)
(* Values.  __type__ is the name of the value's class, kept in "kind".     *)
(* A number is the fraction num/den in lowest terms with den > 0; den = 0  *)
(* encodes the three non-finite doubles: 0/0 is NaN, 1/0 is Infinity and   *)
(* -1/0 is -Infinity.                                                      *)
(***************************************************************************)
Num(i) == [kind |-> "JacquesNumber", num |-> i, den |-> 1]
Str(s) == [kind |-> "JacquesString", str |-> s]
Bool(b) == [kind |-> "JacquesBoolean", bool |-> b]
\* An array is its elements; a record is its properties, a sequence of
\* [key, value] entries in insertion order with no key twice.
Arr(elements) == [kind |-> "JacquesArray", elements |-> elements]
Rec(properties) == [kind |-> "JacquesRecord", properties |-> properties]
\* A function value wraps the host closure func (its identity) with a display
\* name and the parameter names; a class value is known by its className and
\* carries its instance methods, [key, value] entries like a record's, and
\* its constructorFunc, a function value or null.
Fun(func, name, params) ==
  [kind |-> "JacquesFunction", func |-> func, name |-> name, params |-> params]
Class(className, methods, constructorFunc) ==
  [kind |-> "JacquesClass", className |-> className, methods |-> methods,
   constructorFunc |-> constructorFunc]
Null == [kind |-> "null"]

\* The failures of the runtime, named by the message each throw carries.
NoError == "none"
ConstantReassignment == "Cannot reassign constant variable"
UndefinedVariable == "Undefined variable"
DivisionByZero == "Division by zero"
IncompatibleOperandTypes == "Incompatible types for operator"
TypeMismatch == "Type error"
MissingArgument == "Missing argument for parameter"
\* What the host raises when the runtime reads a property of undefined.
HostTypeError == "TypeError"
InvalidOperands == "Invalid operands for binary expression"

Returned(v) == [err |-> NoError, val |-> v]
Thrown(e) == [err |-> e, val |-> Null]

(***************************************************************************)
(* Host arithmetic on numbers (the doubles of the host, without rounding   *)
(* and without a negative zero).                                           *)
(***************************************************************************)
Sgn(n) == IF n > 0 THEN 1 ELSE IF n < 0 THEN -1 ELSE 0
Abs(n) == IF n < 0 THEN -n ELSE n

RECURSIVE GCD(_, _)
GCD(a, b) == IF b = 0 THEN a ELSE GCD(b, a % b)

NaN == [kind |-> "JacquesNumber", num |-> 0, den |-> 0]
Infinity(sign) == [kind |-> "JacquesNumber", num |-> sign, den |-> 0]
\* n/d for d # 0, in lowest terms
Frac(n, d) ==
  LET g == GCD(Abs(n), Abs(d))
  IN [kind |-> "JacquesNumber", num |-> (Sgn(d) * n) \div g, den |-> Abs(d) \div g]

IsNaN(a) == a.den = 0 /\ a.num = 0
IsInfinite(a) == a.den = 0 /\ a.num # 0
IsZero(a) == a.den # 0 /\ a.num = 0

\* a + b, a * b, a / b, a % b, a < b, a === b and Boolean(a) of the host
JsPlus(a, b) ==
  IF IsNaN(a) \/ IsNaN(b) THEN NaN
  ELSE IF IsInfinite(a) /\ IsInfinite(b) THEN (IF a.num = b.num THEN a ELSE NaN)
  ELSE IF IsInfinite(a) THEN a
  ELSE IF IsInfinite(b) THEN b
  ELSE Frac(a.num * b.den + b.num * a.den, a.den * b.den)

JsNegate(a) == [a EXCEPT !.num = -a.num]

JsTimes(a, b) ==
  IF IsNaN(a) \/ IsNaN(b) THEN NaN
  ELSE IF IsInfinite(a) \/ IsInfinite(b)
       THEN (IF a.num = 0 \/ b.num = 0 THEN NaN ELSE Infinity(Sgn(a.num) * Sgn(b.num)))
  ELSE Frac(a.num * b.num, a.den * b.den)

JsDivide(a, b) ==
  IF IsNaN(a) \/ IsNaN(b) THEN NaN
  ELSE IF IsInfinite(a) THEN (IF IsInfinite(b) THEN NaN
                              ELSE Infinity(a.num * (IF b.num < 0 THEN -1 ELSE 1)))
  ELSE IF IsInfinite(b) THEN Num(0)
  ELSE IF b.num = 0 THEN (IF a.num = 0 THEN NaN ELSE Infinity(Sgn(a.num)))
  ELSE Frac(a.num * b.den, a.den * b.num)

JsRemainder(a, b) ==
  IF IsNaN(a) \/ IsNaN(b) \/ IsInfinite(a) \/ IsZero(b) THEN NaN
  ELSE IF IsInfinite(b) THEN a
  ELSE LET n == a.num * b.den
           d == a.den * b.num
           truncated == Sgn(n) * Sgn(d) * (Abs(n) \div Abs(d))
       IN JsPlus(a, JsNegate(JsTimes(b, Num(truncated))))

JsLess(a, b) ==
  /\ ~IsNaN(a)
  /\ ~IsNaN(b)
  /\ IF a.den # 0 /\ b.den # 0 THEN a.num * b.den < b.num * a.den
     ELSE \/ IsInfinite(a) /\ a.num < 0 /\ a # b
          \/ IsInfinite(b) /\ b.num > 0 /\ a # b

JsStrictEquals(a, b) == ~IsNaN(a) /\ ~IsNaN(b) /\ a = b

JsBoolean(a) == ~IsNaN(a) /\ ~IsZero(a)

(***************************************************************************)
(* ToString of every value class.                                          *)
(***************************************************************************)
\* Number.prototype.toString of the host, to the 17 digits of a double
NumberToString(a) ==
  LET digit(d) == SubSeq("0123456789", d + 1, d + 1)
      RECURSIVE natural(_)
      natural(n) == IF n < 10 THEN digit(n) ELSE natural(n \div 10) \o digit(n % 10)
      RECURSIVE decimals(_, _)
      decimals(r, k) ==
        IF r = 0 \/ k = 0 THEN ""
        ELSE digit((r * 10) \div a.den) \o decimals((r * 10) % a.den, k - 1)
  IN IF IsNaN(a) THEN "NaN"
     ELSE IF IsInfinite(a) THEN (IF a.num < 0 THEN "-Infinity" ELSE "Infinity")
     ELSE (IF a.num < 0 THEN "-" ELSE "")
          \o natural(Abs(a.num) \div a.den)
          \o (IF Abs(a.num) % a.den = 0 THEN ""
              ELSE "." \o decimals(Abs(a.num) % a.den, 17))

RECURSIVE ToString(_)
ToString(v) ==
  LET RECURSIVE join(_, _)
      join(items, i) ==
        IF i > Len(items) THEN ""
        ELSE items[i] \o (IF i < Len(items) THEN ", " ELSE "") \o join(items, i + 1)
      quoted(x) == IF x.kind = "JacquesString" THEN "\"" \o x.str \o "\"" ELSE ToString(x)
  IN CASE v.kind = "JacquesNumber" -> NumberToString(v)
       [] v.kind = "JacquesString" -> v.str
       [] v.kind = "JacquesBoolean" -> IF v.bool THEN "true" ELSE "false"
       [] v.kind = "JacquesArray" ->
            "[" \o join([i \in 1..Len(v.elements) |-> ToString(v.elements[i])], 1) \o "]"
       [] v.kind = "JacquesRecord" ->
            "{ " \o join([i \in 1..Len(v.properties) |->
                            v.properties[i].key \o ": " \o quoted(v.properties[i].value)], 1)
                 \o " }"
       [] v.kind = "JacquesFunction" ->
            "function " \o v.name \o "(" \o join(v.params, 1) \o ")"
       [] v.kind = "JacquesClass" -> "Class " \o v.className

(***************************************************************************)
(* Equals and NotEquals of every value class.  The classes compare         *)
(* this.value === other.value, or test the class of other, or read         *)
(* other.properties; reading the keys of an undefined properties field is  *)
(* a TypeError of the host.                                                *)
(***************************************************************************)
\* this.properties[key] of a record: the entry's value, or Null for undefined
Property(r, key) ==
  LET at == {i \in 1..Len(r.properties) : r.properties[i].key = key}
  IN IF at = {} THEN Null ELSE r.properties[CHOOSE i \in at : TRUE].value

RECURSIVE Equals(_, _)
Equals(this, other) ==
  LET RECURSIVE elementsFrom(_)
      elementsFrom(i) ==
        IF i > Len(this.elements) THEN Returned(Bool(TRUE))
        ELSE LET eq == Equals(this.elements[i], other.elements[i])
             IN IF eq.err # NoError THEN eq
                ELSE IF ~eq.val.bool THEN Returned(Bool(FALSE))
                ELSE elementsFrom(i + 1)
      RECURSIVE entriesFrom(_)
      entriesFrom(i) ==
        IF i > Len(this.properties) THEN Returned(Bool(TRUE))
        ELSE LET theirs == Property(other, this.properties[i].key)
             IN IF theirs = Null THEN Returned(Bool(FALSE))
                ELSE LET eq == Equals(theirs, this.properties[i].value)
                     IN IF eq.err # NoError THEN eq
                        ELSE IF ~eq.val.bool THEN Returned(Bool(FALSE))
                        ELSE entriesFrom(i + 1)
  IN CASE this.kind = "JacquesNumber" ->
            Returned(Bool(other.kind = "JacquesNumber" /\ JsStrictEquals(this, other)))
       [] this.kind = "JacquesString" ->
            Returned(Bool(other.kind = "JacquesString" /\ this.str = other.str))
       [] this.kind = "JacquesBoolean" ->
            Returned(Bool(other.kind = "JacquesBoolean" /\ this.bool = other.bool))
       [] this.kind = "JacquesArray" ->
            IF other.kind # "JacquesArray" THEN Returned(Bool(FALSE))
            ELSE IF Len(this.elements) # Len(other.elements) THEN Returned(Bool(FALSE))
            ELSE elementsFrom(1)
       [] this.kind = "JacquesRecord" ->
            IF other.kind = "JacquesClass" THEN Returned(Bool(FALSE))
            ELSE IF other.kind # "JacquesRecord" THEN Thrown(HostTypeError)
            ELSE IF Len(this.properties) # Len(other.properties) THEN Returned(Bool(FALSE))
            ELSE entriesFrom(1)
       [] this.kind = "JacquesFunction" ->
            Returned(Bool(other.kind = "JacquesFunction" /\ this.func = other.func))
       [] this.kind = "JacquesClass" ->
            Returned(Bool(other.kind = "JacquesClass" /\ this.className = other.className))

NotEquals(this, other) ==
  LET eq == Equals(this, other)
  IN IF eq.err # NoError THEN eq ELSE Returned(Bool(~eq.val.bool))

\* A Divide without the test for a zero divisor.
DivideUnchecked(this, other) == Returned(JsDivide(this, other))

\* JacquesNumber.Divide
Divide(this, other) ==
  IF IsZero(other) THEN Thrown(DivisionByZero) ELSE Returned(JsDivide(this, other))

(***************************************************************************)
(* Interpreter.evaluateBinaryExpression on the values of its two operands. *)
(***************************************************************************)
Operators == {"+", "-", "*", "/", "%", "==", "!=", "<", ">", "<=", ">=", "&&", "||"}

evaluateBinaryExpression(operator, left, right) ==
  LET numbers == left.kind = "JacquesNumber" /\ right.kind = "JacquesNumber"
      booleans == left.kind = "JacquesBoolean" /\ right.kind = "JacquesBoolean"
      onNumbers(result) == IF numbers THEN Returned(result)
                           ELSE Thrown(IncompatibleOperandTypes)
  IN IF left = Null \/ right = Null THEN Thrown(InvalidOperands)
     ELSE CASE operator = "+" ->
                 IF left.kind = "JacquesString" \/ right.kind = "JacquesString"
                 THEN Returned(Str(ToString(left) \o ToString(right)))
                 ELSE onNumbers(JsPlus(left, right))
            [] operator = "-" -> onNumbers(JsPlus(left, JsNegate(right)))
            [] operator = "*" -> onNumbers(JsTimes(left, right))
            [] operator = "/" ->
                 IF numbers THEN Divide(left, right) ELSE Thrown(IncompatibleOperandTypes)
            [] operator = "%" -> onNumbers(JsRemainder(left, right))
            [] operator = "==" -> Equals(left, right)
            [] operator = "!=" -> NotEquals(left, right)
            [] operator = "<" -> onNumbers(Bool(JsLess(left, right)))
            [] operator = ">" -> onNumbers(Bool(JsLess(right, left)))
            [] operator = "<=" ->
                 onNumbers(Bool(JsLess(left, right) \/ JsStrictEquals(left, right)))
            [] operator = ">=" ->
                 onNumbers(Bool(JsLess(right, left) \/ JsStrictEquals(left, right)))
            [] operator = "&&" ->
                 IF booleans THEN Returned(Bool(left.bool /\ right.bool))
                 ELSE onNumbers(Bool(JsBoolean(left) /\ JsBoolean(right)))
            [] operator = "||" ->
                 IF booleans THEN Returned(Bool(left.bool \/ right.bool))
                 ELSE onNumbers(Bool(JsBoolean(left) \/ JsBoolean(right)))

(***************************************************************************)
(* Environment: a Map from names to StoredValue {value, constantBinding}   *)
(* and the enclosing Environment (0 is null).                              *)
(***************************************************************************)
Names == {"x", "y"}
EnvValues == {Num(1), Num(2)}
\* The bindings the client makes: x to either value, constant or not, and a
\* mutable y beside it.
Stored == (({"x"} \X EnvValues) \X BOOLEAN) \cup {<<<<"y", Num(1)>>, FALSE>>}

StoredValue(v, c) == [value |-> v, constantBinding |-> c]

NewEnvironment(enclosing) == [values |-> <<>>, enclosing |-> enclosing]

MapSet(m, k, v) == [n \in (DOMAIN m) \cup {k} |-> IF n = k THEN v ELSE m[n]]

\* A define that also overwrites the binding the enclosing scope has of the
\* name.
defineShared(E, e, name, value, constantBinding) ==
  LET Set(envs_, scope) ==
        [envs_ EXCEPT ![scope].values =
                        MapSet(@, name, StoredValue(value, constantBinding))]
  IN IF E[e].enclosing # 0 /\ name \in DOMAIN E[E[e].enclosing].values
     THEN Set(Set(E, E[e].enclosing), e)
     ELSE Set(E, e)

\* define(name, value, constantBinding): this.values.set(...)
define(E, e, name, value, constantBinding) ==
  [E EXCEPT ![e].values = MapSet(@, name, StoredValue(value, constantBinding))]

\* has(name)
RECURSIVE has(_, _, _)
has(E, e, name) ==
  IF name \in DOMAIN E[e].values THEN TRUE
  ELSE IF E[e].enclosing # 0 THEN has(E, E[e].enclosing, name)
  ELSE FALSE

\* A lookup that lets an enclosing binding win over the scope's own.
RECURSIVE getOutermost(_, _, _)
getOutermost(E, e, name) ==
  IF E[e].enclosing # 0 /\ getOutermost(E, E[e].enclosing, name).err = NoError
  THEN getOutermost(E, E[e].enclosing, name)
  ELSE IF name \in DOMAIN E[e].values THEN Returned(E[e].values[name].value)
  ELSE Thrown(UndefinedVariable)

\* get(name): the value, or the throw of line 60
RECURSIVE get(_, _, _)
get(E, e, name) ==
  IF name \in DOMAIN E[e].values THEN Returned(E[e].values[name].value)
  ELSE IF E[e].enclosing # 0 THEN get(E, E[e].enclosing, name)
  ELSE Thrown(UndefinedVariable)

\* getAll(): the values of the enclosing scopes, overridden by the scope's own
RECURSIVE getAll(_, _)
getAll(E, e) ==
  LET own == E[e].values
      result == IF E[e].enclosing # 0 THEN getAll(E, E[e].enclosing) ELSE <<>>
  IN [key \in (DOMAIN result) \cup (DOMAIN own) |->
        IF key \in DOMAIN own THEN own[key].value ELSE result[key]]

\* An assign that defines the name in the root scope when no scope has it.
RECURSIVE assignVivify(_, _, _, _)
assignVivify(E, e, name, value) ==
  IF name \in DOMAIN E[e].values
  THEN IF E[e].values[name].constantBinding
       THEN [envs |-> E, ret |-> Thrown(ConstantReassignment)]
       ELSE [envs |-> [E EXCEPT ![e].values[name].value = value],
             ret |-> Returned(value)]
  ELSE IF E[e].enclosing # 0 THEN assignVivify(E, E[e].enclosing, name, value)
  ELSE [envs |-> define(E, e, name, value, FALSE), ret |-> Returned(value)]

\* An assign that updates the binding it finds whatever its constant flag.
RECURSIVE assignAnyway(_, _, _, _)
assignAnyway(E, e, name, value) ==
  IF name \in DOMAIN E[e].values
  THEN [envs |-> [E EXCEPT ![e].values[name].value = value], ret |-> Returned(value)]
  ELSE IF E[e].enclosing # 0 THEN assignAnyway(E, E[e].enclosing, name, value)
  ELSE [envs |-> E, ret |-> Thrown(UndefinedVariable)]

\* An assign that leaves a binding found in an enclosing scope alone and
\* binds a fresh copy in the scope it was called on.
assignCopy(E, e, name, value) ==
  IF name \in DOMAIN E[e].values
  THEN IF E[e].values[name].constantBinding
       THEN [envs |-> E, ret |-> Thrown(ConstantReassignment)]
       ELSE [envs |-> [E EXCEPT ![e].values[name].value = value],
             ret |-> Returned(value)]
  ELSE IF has(E, e, name)
  THEN [envs |-> define(E, e, name, value, FALSE), ret |-> Returned(value)]
  ELSE [envs |-> E, ret |-> Thrown(UndefinedVariable)]

\* assign(name, value): the store after the call and what the call returned
RECURSIVE assign(_, _, _, _)
assign(E, e, name, value) ==
  IF name \in DOMAIN E[e].values
  THEN IF E[e].values[name].constantBinding
       THEN [envs |-> E, ret |-> Thrown(ConstantReassignment)]
       ELSE [envs |-> [E EXCEPT ![e].values[name].value = value],
             ret |-> Returned(value)]
  ELSE IF E[e].enclosing # 0 THEN assign(E, E[e].enclosing, name, value)
  ELSE [envs |-> E, ret |-> Thrown(UndefinedVariable)]

\* No program is loaded: nothing is running and nothing has been called; no
\* Parser and no Lexer is constructed and no record allocated.
NoProgram ==
  /\ funcs = <<>> /\ frames = <<>> /\ callStack = <<>> /\ log = <<>>
  /\ parser = <<>> /\ records = <<>> /\ lexer = <<>> /\ store = <<>>

(***************************************************************************)
(* The Environment class driven directly: any sequence of constructor and  *)
(* method calls a client can make.                                         *)
(***************************************************************************)
EnvIds == 1..Len(envs)

EnvNew(parent) ==
  /\ Len(envs) < MaxEnvs
  /\ envs' = Append(envs, NewEnvironment(parent))
  /\ ret' = Returned(Null)
  /\ UNCHANGED <<binary, arrays, funcs, frames, callStack, log, parser, records, lexer,
                 store>>

EnvDefine(e, name, value, c) ==
  /\ envs' = define(envs, e, name, value, c)
  /\ ret' = Returned(Null)
  /\ UNCHANGED <<binary, arrays, funcs, frames, callStack, log, parser, records, lexer,
                 store>>

EnvAssign(e, name, value) ==
  /\ envs' = assign(envs, e, name, value).envs
  /\ ret' = assign(envs, e, name, value).ret
  /\ UNCHANGED <<binary, arrays, funcs, frames, callStack, log, parser, records, lexer,
                 store>>

EnvGet(e, name) ==
  /\ ret' = get(envs, e, name)
  /\ UNCHANGED envs
  /\ UNCHANGED <<binary, arrays, funcs, frames, callStack, log, parser, records, lexer,
                 store>>

EnvHas(e, name) ==
  /\ ret' = Returned(Bool(has(envs, e, name)))
  /\ UNCHANGED envs
  /\ UNCHANGED <<binary, arrays, funcs, frames, callStack, log, parser, records, lexer,
                 store>>

InitEnv ==
  /\ envs = <<NewEnvironment(0)>>
  /\ ret = Returned(Null)
  /\ binary = [operator |-> "+", left |-> Null, right |-> Null, evaluated |-> "no"]
  /\ arrays = <<>>
  /\ NoProgram

NextEnv ==
  \/ \E p \in EnvIds : EnvNew(p)
  \/ \E e \in EnvIds, b \in Stored : EnvDefine(e, b[1][1], b[1][2], b[2])
  \/ \E e \in EnvIds, b \in Stored : EnvAssign(e, b[1][1], b[1][2])
  \/ \E e \in EnvIds, n \in Names : EnvGet(e, n)
  \/ \E e \in EnvIds, n \in Names : EnvHas(e, n)

SpecEnv == InitEnv /\ [][NextEnv]_vars

(***************************************************************************)
(* Binary expressions: the operands are drawn, then the expression         *)
(* `left operator right` is evaluated, or left.Divide(right) is called.    *)
(***************************************************************************)
Numbers == {Num(i) : i \in -MaxNum..MaxNum} \cup {NaN, Infinity(1), Infinity(-1)}

OperandValues ==
  Numbers \cup
  { Str(""), Str("a"), Bool(TRUE), Bool(FALSE),
    Arr(<<>>), Arr(<<Num(1)>>),
    Rec(<<>>), Rec(<<[key |-> "a", value |-> Num(1)]>>),
    Fun(1, "f", <<"a">>), Class("A", <<>>, [kind |-> "null"]) }

EvaluateBinary ==
  /\ binary.evaluated = "no"
  /\ binary' = [binary EXCEPT !.evaluated = "expression"]
  /\ ret' = evaluateBinaryExpression(binary.operator, binary.left, binary.right)
  /\ UNCHANGED <<envs, arrays, funcs, frames, callStack, log, parser, records, lexer,
                 store>>

CallDivide ==
  /\ binary.evaluated = "no"
  /\ binary.operator = "/"
  /\ binary.left.kind = "JacquesNumber"
  /\ binary.right.kind = "JacquesNumber"
  /\ binary' = [binary EXCEPT !.evaluated = "method"]
  /\ ret' = Divide(binary.left, binary.right)
  /\ UNCHANGED <<envs, arrays, funcs, frames, callStack, log, parser, records, lexer,
                 store>>

InitBinary ==
  /\ binary \in [operator : Operators, left : OperandValues, right : OperandValues,
                 evaluated : {"no"}]
  /\ ret = Returned(Null)
  /\ envs = <<NewEnvironment(0)>>
  /\ arrays = <<>>
  /\ NoProgram

NextBinary == EvaluateBinary \/ CallDivide

SpecBinary == InitBinary /\ [][NextBinary]_vars

\* C7: dividing a number by zero, by the expression a / 0 or by a.Divide(0),
\* fails with DivisionByZero and yields no value; dividing by a number other
\* than zero yields a Number.
C7_DivisionByZero ==
  (/\ binary.evaluated # "no"
   /\ binary.operator = "/"
   /\ binary.left.kind = "JacquesNumber"
   /\ binary.right.kind = "JacquesNumber")
  => IF binary.right = Num(0)
     THEN ret = Thrown(DivisionByZero)
     ELSE ret.err = NoError /\ ret.val.kind = "JacquesNumber"

\* 1 / 0 has been evaluated and has failed.
C7_Witness ==
  /\ binary.evaluated = "expression"
  /\ binary.operator = "/"
  /\ binary.left = Num(1)
  /\ binary.right = Num(0)
  /\ ret.err = DivisionByZero

\* C8 as stated: every operator other than + applied to operands of two
\* different value kinds fails with IncompatibleOperandTypes.
C8_MixedKindsFail ==
  (/\ binary.evaluated = "expression"
   /\ binary.operator # "+"
   /\ binary.left.kind # binary.right.kind)
  => ret.err = IncompatibleOperandTypes

(***************************************************************************)
(* JacquesArray.Add, Remove and Length on array objects.  An object keeps, *)
(* beside its elements, the call that made it (origin).                    *)
(***************************************************************************)
ElementValues == {Num(1), Str("a")}
IndexValues == {Num(i) : i \in -1..(MaxLen + 1)} \cup {Frac(1, 2), NaN}

ArrayObject(elements, op, of, arg) ==
  [elements |-> elements, origin |-> [op |-> op, of |-> of, arg |-> arg]]
ArrayRef(id) == [kind |-> "JacquesArray", object |-> id]

Length(elements) == Num(Len(elements))

\* [...this.elements, element]
Add(elements, element) == Append(elements, element)

\* whether Remove returns this: index.value < 0 || index.value >= length
RemoveReturnsThis(elements, index) ==
  \/ JsLess(index, Num(0))
  \/ JsLess(Length(elements), index)
  \/ JsStrictEquals(index, Length(elements))

\* A Remove that always drops the first element.
RemoveFirst(elements, index) ==
  IF RemoveReturnsThis(elements, index) \/ elements = <<>> THEN elements
  ELSE Tail(elements)

\* Remove(index): the elements of the array it returns; splice(start, 1)
\* truncates start to an integer and takes NaN as 0
Remove(elements, index) ==
  IF RemoveReturnsThis(elements, index) THEN elements
  ELSE LET start == IF IsNaN(index) THEN 0 ELSE index.num \div index.den
       IN IF start >= Len(elements) THEN elements
          ELSE SubSeq(elements, 1, start) \o SubSeq(elements, start + 2, Len(elements))

ArrayIds == 1..Len(arrays)

ArrayAdd(a, element) ==
  /\ Len(arrays) < MaxArrays
  /\ Len(arrays[a].elements) < MaxLen
  /\ arrays' = Append(arrays, ArrayObject(Add(arrays[a].elements, element), "Add", a, element))
  /\ ret' = Returned(ArrayRef(Len(arrays) + 1))
  /\ UNCHANGED <<envs, binary, funcs, frames, callStack, log, parser, records, lexer,
                 store>>

ArrayRemove(a, index) ==
  /\ IF RemoveReturnsThis(arrays[a].elements, index)
     THEN /\ arrays' = arrays
          /\ ret' = Returned(ArrayRef(a))
     ELSE /\ Len(arrays) < MaxArrays
          /\ arrays' = Append(arrays, ArrayObject(Remove(arrays[a].elements, index),
                                                  "Remove", a, index))
          /\ ret' = Returned(ArrayRef(Len(arrays) + 1))
  /\ UNCHANGED <<envs, binary, funcs, frames, callStack, log, parser, records, lexer,
                 store>>

ArrayLength(a) ==
  /\ ret' = Returned(Length(arrays[a].elements))
  /\ UNCHANGED <<envs, binary, arrays, funcs, frames, callStack, log, parser,
               records, lexer, store>>

RECURSIVE SeqsUpTo(_, _)
SeqsUpTo(S, n) ==
  IF n = 0 THEN {<<>>}
  ELSE SeqsUpTo(S, n - 1) \cup {Append(q, x) : q \in SeqsUpTo(S, n - 1), x \in S}

InitArray ==
  /\ \E elements \in SeqsUpTo(ElementValues, MaxLen) :
       arrays = <<ArrayObject(elements, "literal", 0, Null)>>
  /\ ret = Returned(ArrayRef(1))
  /\ envs = <<NewEnvironment(0)>>
  /\ binary = [operator |-> "+", left |-> Null, right |-> Null, evaluated |-> "no"]
  /\ NoProgram

NextArray ==
  \/ \E a \in ArrayIds, x \in ElementValues : ArrayAdd(a, x)
  \/ \E a \in ArrayIds, i \in IndexValues : ArrayRemove(a, i)
  \/ \E a \in ArrayIds : ArrayLength(a)

SpecArray == InitArray /\ [][NextArray]_vars

\* The array objects c = a.Add(x).Remove(a.Length), with a.
AddRemoveTrips(A) ==
  {t \in (1..Len(A)) \X (1..Len(A)) :
     LET a == t[1]
         c == t[2]
     IN /\ A[c].origin.op = "Remove"
        /\ A[A[c].origin.of].origin.op = "Add"
        /\ A[A[c].origin.of].origin.of = a
        /\ A[c].origin.arg = Length(A[a].elements)}

RECURSIVE ScopeChain(_, _)
ScopeChain(E, e) == IF e = 0 THEN <<>> ELSE <<e>> \o ScopeChain(E, E[e].enclosing)

Innermost(E, e, name) ==
  LET chain == ScopeChain(E, e)
      holders == {i \in 1..Len(chain) : name \in DOMAIN E[chain[i]].values}
  IN IF holders = {} THEN 0
     ELSE chain[CHOOSE i \in holders : \A j \in holders : i <= j]

\* C4: get, has and assign act on the binding of the name in the innermost
\* scope of the chain that contains it: get returns that binding's value, has
\* answers whether some scope of the chain contains the name and changes
\* nothing, and assign changes that one binding's value and nothing else (no
\* binding at all when the binding is constant).
C4_InnermostWins ==
  [][\A e \in EnvIds, n \in Names :
       LET o == Innermost(envs, e, n) IN
       /\ EnvGet(e, n) =>
            /\ ret' = IF o = 0 THEN Thrown(UndefinedVariable)
                       ELSE Returned(envs[o].values[n].value)
            /\ envs' = envs
       /\ EnvHas(e, n) => ret' = Returned(Bool(o # 0)) /\ envs' = envs
       /\ \A v \in EnvValues :
            (EnvAssign(e, n, v) /\ o # 0) =>
              IF envs[o].values[n].constantBinding
              THEN envs' = envs /\ ret' = Thrown(ConstantReassignment)
              ELSE /\ ret' = Returned(v)
                   /\ envs'[o].values[n] = StoredValue(v, FALSE)
                   /\ \A f \in EnvIds : \A m \in DOMAIN envs[f].values :
                        (f # o \/ m # n) =>
                          /\ m \in DOMAIN envs'[f].values
                          /\ envs'[f].values[m] = envs[f].values[m]
                   /\ \A f \in EnvIds :
                        /\ DOMAIN envs'[f].values = DOMAIN envs[f].values
                        /\ envs'[f].enclosing = envs[f].enclosing
                   /\ Len(envs') = Len(envs)
    ]_vars

\* A name is bound in a scope and, to another value, in its enclosing scope,
\* and the last call returned the inner value.
C4_Witness ==
  \E e \in EnvIds :
    /\ envs[e].enclosing # 0
    /\ "x" \in DOMAIN envs[e].values
    /\ "x" \in DOMAIN envs[envs[e].enclosing].values
    /\ envs[e].values["x"].value = Num(2)
    /\ envs[envs[e].enclosing].values["x"].value = Num(1)
    /\ ~envs[e].values["x"].constantBinding
    /\ ret = Returned(Num(2))

\* C5 as stated: assign on a name no scope of the chain binds creates a
\* mutable binding in the scope it was called on and returns the value.
C5_AssignVivifies ==
  [][\A e \in EnvIds, n \in Names, v \in EnvValues :
       (EnvAssign(e, n, v) /\ Innermost(envs, e, n) = 0) =>
         /\ ret' = Returned(v)
         /\ n \in DOMAIN envs'[e].values
         /\ envs'[e].values[n] = StoredValue(v, FALSE)
    ]_vars

\* C5 amended: assign on a name no scope of the chain binds fails with
\* UndefinedVariable, returns no value and leaves every scope as it was.
C5_AssignUnboundThrows ==
  [][\A e \in EnvIds, n \in Names, v \in EnvValues :
       (EnvAssign(e, n, v) /\ Innermost(envs, e, n) = 0) =>
         /\ ret' = Thrown(UndefinedVariable)
         /\ envs' = envs
    ]_vars

\* An assign has just failed on an unbound name of a two-scope chain.
C5_Witness ==
  /\ ret = Thrown(UndefinedVariable)
  /\ \E e \in EnvIds, n \in Names :
       /\ envs[e].enclosing # 0
       /\ Innermost(envs, e, n) = 0
       /\ Names \ {n} \subseteq DOMAIN envs[e].values

(***************************************************************************)
(* The syntax tree (ASTNode.ts).  A node is a record with its type; a      *)
(* missing optional child (a null name, no default value, no argument) is  *)
(* NoNode.                                                                 *)
(***************************************************************************)
NoNode == [type |-> "null"]
\* A literal keeps its host value in the field of its type.
NumberLiteral(value) == [type |-> "NumberLiteral", number |-> Num(value)]
StringLiteral(value) == [type |-> "StringLiteral", string |-> value]
BooleanLiteral(value) == [type |-> "BooleanLiteral", boolean |-> value]
\* An identifier; as a parameter it may carry a default-value expression.
Parameter(name, defaultValue) ==
  [type |-> "Identifier", name |-> name, defaultValue |-> defaultValue]
Identifier(name) == Parameter(name, NoNode)
BinaryExpression(operator, left, right) ==
  [type |-> "BinaryExpression", operator |-> operator, left |-> left, right |-> right]
\* isConstant is true for := and false for =
Assignment(left, isConstant, right) ==
  [type |-> "Assignment", isConstant |-> isConstant, left |-> left, right |-> right]
\* object.property, never computed
MemberExpression(object, property) ==
  [type |-> "MemberExpression", object |-> object, property |-> property]
CallExpression(callee, arguments) ==
  [type |-> "CallExpression", callee |-> callee, arguments |-> arguments]
FunctionDeclaration(name, params, body) ==
  [type |-> "FunctionDeclaration", name |-> name, params |-> params, body |-> body]
LambdaExpression(params, body) ==
  [type |-> "LambdaExpression", params |-> params, body |-> body]
\* An instance method of a class body; function is its FunctionDeclaration.
MethodDefinition(name, function) ==
  [type |-> "MethodDefinition", name |-> name, function |-> function,
   isConstructor |-> FALSE]
\* constructor(params) body end
ConstructorDefinition(function) ==
  [MethodDefinition(Identifier("constructor"), function) EXCEPT !.isConstructor = TRUE]
\* The parameter @name
ShorthandParameter(name) ==
  [type |-> "Identifier", name |-> name, defaultValue |-> NoNode,
   isShorthandProperty |-> TRUE]
\* A class without superclass whose body is its instance methods.
ClassDeclaration(name, body) ==
  [type |-> "ClassDeclaration", name |-> name, body |-> body]
\* import specifiers from "source"
ImportDeclaration(specifiers, source) ==
  [type |-> "ImportDeclaration", specifiers |-> specifiers, source |-> source]
\* export declaration
ExportDeclaration(declaration) ==
  [type |-> "ExportDeclaration", declaration |-> declaration]
ReturnStatement(argument) == [type |-> "ReturnStatement", argument |-> argument]
\* alternate is NoNode when there is no else branch
IfStatement(test, consequent, alternate) ==
  [type |-> "IfStatement", test |-> test, consequent |-> consequent,
   alternate |-> alternate]
WhileStatement(condition, body) ==
  [type |-> "WhileStatement", condition |-> condition, body |-> body]
\* `name: Type`
TypeDeclaration(name, typeName) ==
  [type |-> "TypeDeclaration", name |-> name, typeAnnotation |-> [name |-> typeName]]

ArrayLiteral(elements) == [type |-> "ArrayLiteral", elements |-> elements]
\* properties is a sequence of [key, value], value a node
ObjectLiteral(properties) == [type |-> "ObjectLiteral", properties |-> properties]

\* The messages of the evaluator's other throws.
UndefinedInstanceProperty == "Undefined instance property"
PropertyNotFound == "Property not found"
NotAFunction == "is not a function"
NotAnIdentifier == "Left side of assignment must be an identifier"
NonValueAssigned == "Cannot assign non-value to variable"
UnknownNodeType == "Unknown node type"
IfConditionNotAValue == "If condition must evaluate to a Jacques value"

(***************************************************************************)
(* The Interpreter.  Its constructor allocates the global Environment      *)
(* (this.env) and the Environment of the builtins (this.builtins), which   *)
(* holds one function value per builtin, Println being the only constant.  *)
(***************************************************************************)
GlobalEnv == 1
BuiltinsEnv == 2
BuiltinNames == <<"Println", "Number", "String", "Boolean", "Array", "Map">>

\* The closures behind the builtins, one per name, and this.builtins.
BuiltinFuncs == [i \in 1..Len(BuiltinNames) |->
                   [node |-> [type |-> "Builtin", name |-> BuiltinNames[i]], env |-> 0]]
initializeBuiltins ==
  [values |-> [n \in {BuiltinNames[i] : i \in 1..Len(BuiltinNames)} |->
                 StoredValue(Fun(CHOOSE i \in 1..Len(BuiltinNames) : BuiltinNames[i] = n,
                                 "anonymous", <<>>),
                             n = "Println")],
   enclosing |-> 0]

\* The result of evaluating a node: the environments and closures after it
\* and what it returned or threw.
Evaluated(E, F, r) == [envs |-> E, funcs |-> F, ret |-> r]

\* evaluateIdentifier(node, env)
evaluateIdentifier(E, env, name) ==
  IF SubSeq(name, 1, 1) = "@"
  THEN LET propName == SubSeq(name, 2, Len(name))
           self == get(E, env, "self").val
       IN IF ~has(E, env, "self") THEN Thrown(UndefinedInstanceProperty)
          ELSE IF self.kind # "JacquesRecord" THEN Thrown(HostTypeError)
          ELSE IF Property(self, propName) # Null THEN Returned(Property(self, propName))
          ELSE Thrown(UndefinedInstanceProperty)
  ELSE IF has(E, env, name) THEN get(E, env, name)
  ELSE IF has(E, BuiltinsEnv, name) THEN get(E, BuiltinsEnv, name)
  ELSE Thrown(UndefinedVariable)

\* evaluateMemberExpression(node, env) on the value of node.object, for a
\* property that is not computed: a record answers with its own property.
\* The host members of the value classes are not reached by the programs
\* of this model.
evaluateMemberExpression(object, property) ==
  IF object = Null THEN Thrown("Cannot access property of null or undefined")
  ELSE IF property.type # "Identifier" THEN Thrown("Property must be an identifier")
  ELSE IF object.kind = "JacquesRecord" /\ Property(object, property.name) # Null
  THEN Returned(Property(object, property.name))
  ELSE Thrown(PropertyNotFound)

\* The host closure created for a function, a lambda or a method: the node
\* it executes and the Environment that was current when it was created.
Closure(node, env) == [node |-> node, env |-> env]

ParamNames(params) == [i \in 1..Len(params) |-> params[i].name]

\* properties[key] = value on a record's entries
WithProperty(properties, key, value) ==
  IF \E i \in 1..Len(properties) : properties[i].key = key
  THEN [i \in 1..Len(properties) |->
          IF properties[i].key = key THEN [key |-> key, value |-> value]
          ELSE properties[i]]
  ELSE Append(properties, [key |-> key, value |-> value])

\* evaluateFunctionDeclaration(node, env): the function value, bound to its
\* name in env when it has one.  (What its closure does when called is
\* InvokeFunction below.)
evaluateFunctionDeclaration(E, F, node, env) ==
  LET functionName == IF node.name # NoNode THEN node.name.name ELSE "anonymous"
      jacquesFunction == Fun(Len(F) + 1, functionName, ParamNames(node.params))
  IN Evaluated(IF node.name # NoNode
               THEN define(E, env, node.name.name, jacquesFunction, FALSE)
               ELSE E,
               Append(F, Closure(node, env)),
               Returned(jacquesFunction))

\* evaluateLambdaExpression(node, env)
evaluateLambdaExpression(E, F, node, env) ==
  Evaluated(E, Append(F, Closure(node, env)),
            Returned(Fun(Len(F) + 1, "lambda", ParamNames(node.params))))

\* evaluateClassDeclaration(node, env) for a body of instance methods and
\* constructors: one closure (methodFunc) per member, each knowing the class
\* it belongs to; a constructor becomes the class's constructorFunc;
\* the class value is bound to its name in env without a constant flag.
evaluateClassDeclaration(E, F, node, env) ==
  LET jacquesMethod(i) == Fun(Len(F) + i, node.body[i].name.name,
                              ParamNames(node.body[i].function.params))
      Methods[i \in 0..Len(node.body)] ==
        IF i = 0 THEN <<>>
        ELSE IF node.body[i].isConstructor THEN Methods[i - 1]
        ELSE WithProperty(Methods[i - 1], node.body[i].name.name, jacquesMethod(i))
      constructorFunc[i \in 0..Len(node.body)] ==
        IF i = 0 THEN Null
        ELSE IF node.body[i].isConstructor THEN jacquesMethod(i)
        ELSE constructorFunc[i - 1]
      jacquesClass == Class(node.name.name, Methods[Len(node.body)],
                            constructorFunc[Len(node.body)])
  IN Evaluated(define(E, env, node.name.name, jacquesClass, FALSE),
               F \o [i \in 1..Len(node.body) |->
                       [node |-> node.body[i], env |-> env, currentClass |-> jacquesClass]],
               Returned(jacquesClass))

\* evaluateTypeDeclaration(node, env): the default value of the type, defined
\* in env as a mutable binding
UnknownType == "Unknown type"
evaluateTypeDeclaration(E, F, node, env) ==
  LET typeName == node.typeAnnotation.name
      value == CASE typeName = "Number" -> Num(0)
                 [] typeName = "String" -> Str("")
                 [] typeName = "Boolean" -> Bool(TRUE)
                 [] typeName = "Array" -> Arr(<<>>)
                 [] typeName = "Record" -> Rec(<<>>)
                 [] OTHER -> Null
  IN IF value = Null THEN Evaluated(E, F, Thrown(UnknownType))
     ELSE Evaluated(define(E, env, node.name.name, value, FALSE), F, Returned(value))

\* JacquesFunction.Bind(...boundArgs): the closure boundFunc
Bind(func, boundArgs) ==
  [node |-> [type |-> "Bound", originalFunc |-> func, boundArgs |-> boundArgs], env |-> 0]

\* JacquesClass.__call__(args) up to the call of the constructor: the
\* instance is a record of the class's properties (its name) and of its
\* methods bound to the instance; every method is bound twice and the
\* second one is kept.
instantiate(F, class) ==
  LET n == Len(class.methods)
      bound(i, func) == Fun(func, class.methods[i].value.name \o "_bound",
                            SubSeq(class.methods[i].value.params, 2,
                                   Len(class.methods[i].value.params)))
      instance == Rec(<<[key |-> "name", value |-> Str(class.className)]>> \o
                      [i \in 1..n |->
                         [key |-> class.methods[i].key,
                          value |-> bound(i, Len(F) + n + i)]])
  IN [funcs |-> F \o [i \in 1..(2 * n) |->
                        Bind(class.methods[((i - 1) % n) + 1].value.func, <<instance>>)],
      instance |-> instance]

\* evaluateAssignment(node, env) once node.right has been evaluated to
\* valueResult: the environments after it and what it returned or threw.
assignResult(E, env, node, valueResult) ==
  LET name == node.left.name
      currentValue == get(E, env, name).val
      isSameType == valueResult.kind = currentValue.kind
      isFunctionType == \/ valueResult.kind = "JacquesFunction"
                        \/ currentValue.kind = "JacquesFunction"
      isStringResult == valueResult.kind = "JacquesString"
  IN IF has(E, env, name)
     THEN IF /\ valueResult # Null /\ currentValue # Null
             /\ ~isSameType /\ ~isFunctionType /\ ~isStringResult
          THEN [envs |-> E, ret |-> Thrown(TypeMismatch)]
          ELSE assign(E, env, name, valueResult)
     ELSE IF valueResult # Null
          THEN [envs |-> define(E, env, name, valueResult, node.isConstant),
                ret |-> Returned(valueResult)]
          ELSE [envs |-> E, ret |-> Thrown(NonValueAssigned)]

\* evaluate(node, env) for every node that calls nothing and is no
\* statement with a body.
\* The files import reads, each as the program the Lexer and the Parser make
\* of its text: m1 exports x and z and binds y without export, m2 fails when
\* it is executed, m3 imports x from m1 and exports w; no other file exists.
NoFile == [found |-> FALSE, program |-> <<>>]
readFileSync(sourcePath) ==
  LET File(program) == [found |-> TRUE, program |-> program]
      Binding(name, value) == Assignment(Identifier(name), FALSE, value)
  IN CASE sourcePath = "m1" ->
            File(<< ExportDeclaration(Binding("x", NumberLiteral(1))),
                    Binding("y", NumberLiteral(2)),
                    ExportDeclaration(Binding("z", NumberLiteral(3))) >>)
       [] sourcePath = "m2" ->
            File(<< ExportDeclaration(Binding("x", Identifier("undefined"))) >>)
       [] sourcePath = "m3" ->
            File(<< ImportDeclaration(<<Identifier("x")>>, StringLiteral("m1")),
                    ExportDeclaration(Binding("w", BinaryExpression("+", Identifier("x"),
                                                                 NumberLiteral(1)))) >>)
       [] OTHER -> NoFile

ImportFailed == "Error importing module"
MissingExport == "Export not found in module"

RECURSIVE evaluateArguments(_, _, _, _)
RECURSIVE evaluateImportDeclaration(_, _, _, _)
RECURSIVE evaluate(_, _, _, _)

\* An evaluation of a BinaryExpression that leaves the right operand of `&&`
\* and of `||` alone when the left operand decides the result.
evaluateOperandsShortCircuit(E, F, node, env) ==
  LET Right(l, r) ==
        IF r.ret.err # NoError THEN r
        ELSE [r EXCEPT !.ret = evaluateBinaryExpression(node.operator,
                                                        l.ret.val, r.ret.val)]
      Decides(v) == /\ v.kind = "JacquesBoolean"
                    /\ \/ node.operator = "&&" /\ ~v.bool
                       \/ node.operator = "||" /\ v.bool
      Left(l) ==
        IF l.ret.err # NoError \/ Decides(l.ret.val) THEN l
        ELSE Right(l, evaluate(l.envs, l.funcs, node.right, env))
  IN Left(evaluate(E, F, node.left, env))

\* evaluateBinaryExpression(node, env): evaluate(node.left, env), then
\* evaluate(node.right, env), then the operator on the two values
evaluateOperands(E, F, node, env) ==
  LET Right(l, r) ==
        IF r.ret.err # NoError THEN r
        ELSE [r EXCEPT !.ret = evaluateBinaryExpression(node.operator,
                                                        l.ret.val, r.ret.val)]
      Left(l) ==
        IF l.ret.err # NoError THEN l
        ELSE Right(l, evaluate(l.envs, l.funcs, node.right, env))
  IN Left(evaluate(E, F, node.left, env))

evaluate(E, F, node, env) ==
  CASE node.type = "NumberLiteral" -> Evaluated(E, F, Returned(node.number))
    [] node.type = "StringLiteral" -> Evaluated(E, F, Returned(Str(node.string)))
    [] node.type = "BooleanLiteral" -> Evaluated(E, F, Returned(Bool(node.boolean)))
    [] node.type = "Identifier" -> Evaluated(E, F, evaluateIdentifier(E, env, node.name))
    [] node.type = "BinaryExpression" -> evaluateOperands(E, F, node, env)
    [] node.type = "MemberExpression" ->
         LET Object(o) ==
               IF o.ret.err # NoError THEN o
               ELSE [o EXCEPT !.ret = evaluateMemberExpression(o.ret.val, node.property)]
         IN Object(evaluate(E, F, node.object, env))
    [] node.type = "Assignment" ->
         LET Assigned(v, a) == Evaluated(a.envs, v.funcs, a.ret)
             Value(v) ==
               IF v.ret.err # NoError THEN v
               ELSE Assigned(v, assignResult(v.envs, env, node, v.ret.val))
         IN IF node.left.type # "Identifier"
            THEN Evaluated(E, F, Thrown(NotAnIdentifier))
            ELSE Value(evaluate(E, F, node.right, env))
    [] node.type = "ArrayLiteral" ->
         LET Made(a) ==
               Evaluated(a.envs, a.funcs,
                         IF a.err # NoError THEN Thrown(a.err)
                         ELSE IF \E i \in 1..Len(a.args) : a.args[i] = Null
                         THEN Thrown("Array can only contain Jacques values")
                         ELSE Returned(Arr(a.args)))
         IN Made(evaluateArguments(Evaluated(E, F, Returned(Null)),
                                   node.elements, env, <<>>))
    [] node.type = "ObjectLiteral" ->
         LET Properties(a) ==
               LET P[i \in 0..Len(a.args)] ==
                     IF i = 0 THEN <<>>
                     ELSE WithProperty(P[i - 1], node.properties[i].key, a.args[i])
               IN P[Len(a.args)]
             Made(a) ==
               Evaluated(a.envs, a.funcs,
                         IF a.err # NoError THEN Thrown(a.err)
                         ELSE IF \E i \in 1..Len(a.args) : a.args[i] = Null
                         THEN Thrown("Object property values must be Jacques values")
                         ELSE Returned(Rec(Properties(a))))
         IN Made(evaluateArguments(Evaluated(E, F, Returned(Null)),
                                   [i \in 1..Len(node.properties) |->
                                      node.properties[i].value],
                                   env, <<>>))
    [] node.type = "FunctionDeclaration" -> evaluateFunctionDeclaration(E, F, node, env)
    [] node.type = "LambdaExpression" -> evaluateLambdaExpression(E, F, node, env)
    [] node.type = "ClassDeclaration" -> evaluateClassDeclaration(E, F, node, env)
    [] node.type = "ImportDeclaration" -> evaluateImportDeclaration(E, F, node, env)
    [] node.type = "ExportDeclaration" -> evaluate(E, F, node.declaration, env)
    [] node.type = "TypeDeclaration" -> evaluateTypeDeclaration(E, F, node, env)
    [] node.type \in {"null", "Builtin", "Bound", "MethodDefinition"} ->
         Evaluated(E, F, Thrown(UnknownNodeType))

\* The condition evaluateIfStatement derives from the value of node.test
IfCondition(conditionResult) ==
  CASE conditionResult.kind = "JacquesBoolean" -> conditionResult.bool
    [] conditionResult.kind = "JacquesNumber" -> ~IsZero(conditionResult)
    [] OTHER -> FALSE

\* The conditionValue evaluateWhileStatement derives from the value of
\* node.condition; any other host object is truthy for Boolean(), null is not.
WhileConditionValue(v) ==
  CASE v.kind = "JacquesBoolean" -> v.bool
    [] v.kind = "JacquesNumber" -> ~IsZero(v)
    [] v.kind = "JacquesString" -> v.str # ""
    [] v.kind = "JacquesArray" -> Len(v.elements) > 0
    [] v.kind = "JacquesRecord" -> Len(v.properties) > 0
    [] OTHER -> v # Null

(***************************************************************************)
(* Calls.  The closure of a function or lambda creates an Environment      *)
(* whose parent is the one it was created in, copies the builtins into it, *)
(* pushes it on the call stack and binds the parameters; methodFunc does   *)
(* neither the copy nor the push.                                          *)
(***************************************************************************)
MaxDepth == 4   \* frames at most, the program included

\* A parameter binding that evaluates a default value in the Environment of
\* the call, where the parameters bound before it are visible.
\* evaluateImportDeclaration(node, env): the file is executed by an
\* Interpreter of its own, whose global Environment (this.env) is new;
\* getExports() is every binding of that Environment; each specifier is
\* defined in env in turn, up to the first one getExports() does not have.
\* A file that cannot be read and a module that throws fail alike.
getExports(E, moduleEnv) == E[moduleEnv]

evaluateImportDeclaration(E, F, node, env) ==
  LET file == readFileSync(node.source.string)
      moduleEnv == Len(E) + 1
      RECURSIVE execute(_, _)
      execute(S, i) ==
        IF i > Len(file.program) \/ S.ret.err # NoError THEN S
        ELSE execute(evaluate(S.envs, S.funcs, file.program[i], moduleEnv), i + 1)
      RECURSIVE Import(_, _, _)
      Import(S, sourceModule, i) ==
        IF i > Len(node.specifiers) THEN [S EXCEPT !.ret = Returned(Null)]
        ELSE IF node.specifiers[i].name \notin DOMAIN sourceModule.values
        THEN [S EXCEPT !.ret = Thrown(MissingExport)]
        ELSE Import([S EXCEPT !.envs = define(S.envs, env, node.specifiers[i].name,
                                              sourceModule.values[node.specifiers[i].name].value,
                                              FALSE)],
                    sourceModule, i + 1)
      Executed(S) ==
        IF S.ret.err # NoError THEN [S EXCEPT !.ret = Thrown(ImportFailed)]
        ELSE Import(S, getExports(S.envs, moduleEnv), 1)
  IN IF ~file.found THEN Evaluated(E, F, Thrown(ImportFailed))
     ELSE Executed(execute(Evaluated(Append(E, NewEnvironment(0)), F, Returned(Null)), 1))

RECURSIVE bindParametersInCallScope(_, _, _, _, _, _, _)
bindParametersInCallScope(S, params, args, env, functionEnv, lambda, i) ==
  LET Define(arg) ==
        IF arg.ret.err # NoError THEN arg
        ELSE bindParametersInCallScope(
               [arg EXCEPT !.envs = define(@, functionEnv, params[i].name,
                                           arg.ret.val, FALSE)],
               params, args, env, functionEnv, lambda, i + 1)
  IN IF i > Len(params) THEN S
     ELSE Define(IF i <= Len(args) THEN [S EXCEPT !.ret = Returned(args[i])]
                 ELSE IF params[i].defaultValue # NoNode
                 THEN evaluate(S.envs, S.funcs, params[i].defaultValue, functionEnv)
                 ELSE IF lambda THEN [S EXCEPT !.ret = Returned(Num(0))]
                 ELSE [S EXCEPT !.ret = Thrown(MissingArgument)])

\* The parameter-binding loop of a function closure (lambda = FALSE) and of
\* a lambda closure (lambda = TRUE), from parameter i on: the argument if
\* there is one, else the default value evaluated in env, the Environment
\* the closure was created in; else a throw (function) or Number 0 (lambda).
RECURSIVE bindParameters(_, _, _, _, _, _, _)
bindParameters(S, params, args, env, functionEnv, lambda, i) ==
  LET Define(arg) ==
        IF arg.ret.err # NoError THEN arg
        ELSE bindParameters(
               [arg EXCEPT !.envs = define(@, functionEnv, params[i].name,
                                           arg.ret.val, FALSE)],
               params, args, env, functionEnv, lambda, i + 1)
  IN IF i > Len(params) THEN S
     ELSE Define(IF i <= Len(args) THEN [S EXCEPT !.ret = Returned(args[i])]
                 ELSE IF params[i].defaultValue # NoNode
                 THEN evaluate(S.envs, S.funcs, params[i].defaultValue, env)
                 ELSE IF lambda THEN [S EXCEPT !.ret = Returned(Num(0))]
                 ELSE [S EXCEPT !.ret = Thrown(MissingArgument)])

\* new Environment(env) with every binding of this.builtins defined in it
WithBuiltins(E, env) ==
  Append(E, [NewEnvironment(env) EXCEPT !.values = E[BuiltinsEnv].values])

\* func(...args) of evaluateFunctionDeclaration up to the execution of the
\* body: the state after it, a throw if a parameter could not be bound.
invokeFunction(E, F, func, args) ==
  LET node == F[func].node
      functionName == IF node.name # NoNode THEN node.name.name ELSE "anonymous"
      functionEnv == Len(E) + 1
      Named(envs_) ==
        IF functionName # "anonymous"
        THEN define(envs_, functionEnv, functionName,
                    Fun(func, functionName, ParamNames(node.params)), FALSE)
        ELSE envs_
      Body(b) ==
        IF b.ret.err # NoError THEN b
        ELSE [b EXCEPT !.envs = define(Named(@), functionEnv, "Result", Num(0), FALSE)]
  IN Body(bindParameters(Evaluated(WithBuiltins(E, F[func].env), F, Returned(Null)),
                         node.params, args, F[func].env, functionEnv, FALSE, 1))

\* lambdaFunc(...args) of evaluateLambdaExpression up to the evaluation of
\* the body.
invokeLambda(E, F, func, args) ==
  bindParameters(Evaluated(WithBuiltins(E, F[func].env), F, Returned(Null)),
                 F[func].node.params, args, F[func].env, Len(E) + 1, TRUE, 1)

\* methodFunc(...args) of evaluateClassDeclaration up to the execution of
\* the body: self is args[0]; a parameter without argument is Number 0.
invokeMethod(E, F, func, args) ==
  LET params == F[func].node.function.params
      methodEnv == Len(E) + 1
      Bound[i \in 0..Len(params)] ==
        IF i = 0
        THEN define(IF Len(args) > 0
                    THEN define(Append(E, NewEnvironment(F[func].env)),
                                methodEnv, "self", args[1], FALSE)
                    ELSE Append(E, NewEnvironment(F[func].env)),
                    methodEnv, "currentClass", F[func].currentClass, FALSE)
        ELSE define(Bound[i - 1], methodEnv, params[i].name,
                    IF i + 1 <= Len(args) THEN args[i + 1] ELSE Num(0), FALSE)
  IN Evaluated(Bound[Len(params)], F, Returned(Null))

\* The closure a call of func reaches through its bound functions, and the
\* arguments it receives.
RECURSIVE Target(_, _, _)
Target(F, func, args) ==
  IF F[func].node.type = "Bound"
  THEN Target(F, F[func].node.originalFunc, F[func].node.boundArgs \o args)
  ELSE [func |-> func, args |-> args]

\* node.arguments.map(evaluate) of evaluateCallExpression, after the callee
\* (and node.elements.map(evaluate) of evaluateArrayLiteral)
evaluateArguments(S, nodes, env, args) ==
  LET Next(a) ==
        evaluateArguments(a, Tail(nodes), env,
                          IF a.ret.err = NoError THEN Append(args, a.ret.val) ELSE args)
  IN IF nodes = <<>> \/ S.ret.err # NoError
     THEN [envs |-> S.envs, funcs |-> S.funcs, err |-> S.ret.err, args |-> args]
     ELSE Next(evaluate(S.envs, S.funcs, Head(nodes), env))

(***************************************************************************)
(* The run of a program.  A frame is one body in execution: the program    *)
(* (evaluateProgram) or the body of a called function, lambda or method.   *)
(* pc is the statement to execute next and last the value of the statement *)
(* executed before it.  A statement that calls is executed in two steps,   *)
(* the call and, when the callee's body is done, the rest of the           *)
(* statement.  A throw reaches the host, unless the body of a constructor  *)
(* is in execution: every frame is left and every                          *)
(* finally block pops the call stack.  The branch of an if statement and   *)
(* the body of a while statement in execution are frames too, of kind "if" *)
(* and "while", in the Environment of the statement.                       *)
(***************************************************************************)
Frame(kind, env, body, func, args) ==
  [kind |-> kind, env |-> env, body |-> body, pc |-> 1, last |-> Null,
   func |-> func, args |-> args]

Top == frames[Len(frames)]
AtStatement == frames # <<>> /\ Top.pc <= Len(Top.body)
Statement == Top.body[Top.pc]
\* The call a statement makes: the statement itself or the right side of an
\* assignment.
CallNode == IF Statement.type = "Assignment" THEN Statement.right ELSE Statement
AtCall == AtStatement /\ CallNode.type = "CallExpression"

\* evaluateCallExpression up to the call: what the callee and the arguments
\* evaluate to, and the node of the closure the call reaches, a
\* FunctionDeclaration, a LambdaExpression or a MethodDefinition; or the
\* class called; or the throw before anything is called.
Called ==
  LET Reached(c, t) ==
        [c EXCEPT !.type = c.funcs[t.func].node.type, !.func = t.func, !.args = t.args]
      Dispatch(c) ==
        IF c.type # NoError THEN c
        ELSE IF c.value.kind = "JacquesClass" THEN [c EXCEPT !.type = "JacquesClass"]
        ELSE IF c.value.kind # "JacquesFunction" THEN [c EXCEPT !.type = NotAFunction]
        ELSE Reached(c, Target(c.funcs, c.value.func, c.args))
      Arguments(c, a) ==
        [envs |-> a.envs, funcs |-> a.funcs, type |-> a.err, value |-> c.ret.val,
         func |-> 0, args |-> a.args]
      Callee(c) == Dispatch(Arguments(c, evaluateArguments(c, CallNode.arguments,
                                                           Top.env, <<>>)))
  IN IF Statement.type = "Assignment" /\ Statement.left.type # "Identifier"
     THEN [envs |-> envs, funcs |-> funcs, type |-> NotAnIdentifier, value |-> Null,
           func |-> 0, args |-> <<>>]
     ELSE Callee(evaluate(envs, funcs, CallNode.callee, Top.env))

\* The call stack CS once the frames from the k-th of FR on are left by a
\* throw: the finally block of every function and lambda among them has
\* popped it once.
Unwound(FR, CS, k) ==
  SubSeq(CS, 1, Len(CS) - Cardinality({j \in k..Len(FR) :
                                         FR[j].kind \in {"function", "lambda"}}))

Throw(E, F, FR, CS, e) ==
  /\ envs' = E
  /\ funcs' = F
  /\ ret' = Thrown(e)
  /\ frames' = <<>>
  /\ callStack' = Unwound(FR, CS, 1)

\* A call has returned v to the statement that made it, the current one of
\* the innermost frame of FR, with call stack CS and the calls L returned
\* so far: the statement is completed.
RECURSIVE Raise(_, _, _, _, _, _)
Resume(E, F, FR, CS, L, v) ==
  LET caller == FR[Len(FR)]
      node == caller.body[caller.pc]
      Complete(a) ==
        IF a.ret.err # NoError THEN Raise(a.envs, F, FR, CS, L, a.ret.err)
        ELSE /\ log' = L
             /\ envs' = a.envs
             /\ funcs' = F
             /\ ret' = a.ret
             /\ frames' = [FR EXCEPT ![Len(FR)].pc = @ + 1,
                                     ![Len(FR)].last =
                                        IF caller.kind = "while" /\ a.ret.val = Null
                                        THEN @ ELSE a.ret.val]
             /\ callStack' = CS
  IN Complete(IF node.type = "Assignment" THEN assignResult(E, caller.env, node, v)
              ELSE [envs |-> E, ret |-> Returned(v)])

\* e is thrown in the innermost frame of FR.  If a constructor body is among
\* the frames, JacquesClass.__call__ catches e behind the innermost one and
\* returns the instance to its caller, every function and lambda left on
\* the way having popped the call stack; else e reaches the host.
Raise(E, F, FR, CS, L, e) ==
  LET Constructors == {k \in 1..Len(FR) : FR[k].kind = "constructor"}
      Caught(k) ==
        Resume(E, F, SubSeq(FR, 1, k - 1), Unwound(FR, CS, k),
               Append(L, [func |-> 0, args |-> Tail(FR[k].args), val |-> FR[k].args[1]]),
               FR[k].args[1])
  IN IF Constructors = {}
     THEN Throw(E, F, FR, CS, e) /\ log' = L
     ELSE Caught(CHOOSE k \in Constructors : \A j \in Constructors : j <= k)

\* The frames up to the body of the innermost call (or the program): the
\* branches and loop bodies in execution in that body are left out.
Invocation ==
  SubSeq(frames, 1,
         CHOOSE k \in 1..Len(frames) :
           /\ frames[k].kind \notin {"if", "while"}
           /\ \A j \in (k + 1)..Len(frames) : frames[j].kind \in {"if", "while"})

\* A return that ends only the innermost branch or loop body, as if the
\* statement holding it had yielded the value.
LeaveInnermost(E, F, v) ==
  IF Len(frames) = 1
  THEN /\ envs' = E
       /\ funcs' = F
       /\ ret' = Returned(v)
       /\ frames' = <<>>
       /\ UNCHANGED <<callStack, log>>
  ELSE Resume(E, F, SubSeq(frames, 1, Len(frames) - 1),
              IF Top.kind \in {"method", "constructor", "if", "while"} THEN callStack
              ELSE SubSeq(callStack, 1, Len(callStack) - 1),
              Append(log, [func |-> Top.func, args |-> Top.args, val |-> v]), v)

\* The body of the innermost call (or the program) is left with value v,
\* and with it every branch and loop body in execution in it.  The caller
\* of a constructor receives the instance, whatever the body returns.
Leave(E, F, v) ==
  LET Left(FR) ==
        IF Len(FR) = 1
        THEN /\ envs' = E
             /\ funcs' = F
             /\ ret' = Returned(v)
             /\ frames' = <<>>
             /\ UNCHANGED <<callStack, log>>
        ELSE IF FR[Len(FR)].kind = "constructor"
        THEN Resume(E, F, SubSeq(FR, 1, Len(FR) - 1), callStack,
                    Append(log, [func |-> 0, args |-> Tail(FR[Len(FR)].args),
                                 val |-> FR[Len(FR)].args[1]]),
                    FR[Len(FR)].args[1])
        ELSE Resume(E, F, SubSeq(FR, 1, Len(FR) - 1),
                    IF FR[Len(FR)].kind = "method" THEN callStack
                    ELSE SubSeq(callStack, 1, Len(callStack) - 1),
                    Append(log, [func |-> FR[Len(FR)].func, args |-> FR[Len(FR)].args,
                                 val |-> v]),
                    v)
  IN Left(Invocation)

\* An Enter that pushes the Environment of every body on the call stack,
\* those of methods and constructors too.
EnterPushed(S, c, kind, body, pushed) ==
  IF S.ret.err # NoError
  THEN Raise(S.envs, S.funcs, frames, callStack, log, S.ret.err)
  ELSE /\ envs' = S.envs
       /\ funcs' = S.funcs
       /\ frames' = Append(frames, Frame(kind, Len(S.envs), body, c.func, c.args))
       /\ callStack' = Append(callStack, Len(S.envs))
       /\ UNCHANGED <<ret, log>>

\* The body of the closure called by c starts in the Environment made for
\* it, the last of S.
Enter(S, c, kind, body, pushed) ==
  IF S.ret.err # NoError
  THEN Raise(S.envs, S.funcs, frames, callStack, log, S.ret.err)
  ELSE /\ envs' = S.envs
       /\ funcs' = S.funcs
       /\ frames' = Append(frames, Frame(kind, Len(S.envs), body, c.func, c.args))
       /\ callStack' = IF pushed THEN Append(callStack, Len(S.envs)) ELSE callStack
       /\ UNCHANGED <<ret, log>>

\* A statement that calls nothing, has no body and is no return
ExecuteStatement ==
  /\ AtStatement
  /\ CallNode.type # "CallExpression"
  /\ Statement.type \notin {"ReturnStatement", "IfStatement", "WhileStatement"}
  /\ LET Done(s) ==
           IF s.ret.err # NoError
           THEN Raise(s.envs, s.funcs, frames, callStack, log, s.ret.err)
           ELSE /\ envs' = s.envs
                /\ funcs' = s.funcs
                /\ ret' = s.ret
                /\ frames' = [frames EXCEPT ![Len(frames)].pc = @ + 1,
                                            ![Len(frames)].last =
                                               IF Top.kind = "while" /\ s.ret.val = Null
                                               THEN @ ELSE s.ret.val]
                /\ UNCHANGED <<callStack, log>>
     IN Done(evaluate(envs, funcs, Statement, Top.env))
  /\ UNCHANGED <<binary, arrays, parser, records, lexer, store>>

\* A call that throws before any body is entered
CallFails ==
  /\ AtCall
  /\ LET Fails(c) ==
           /\ c.type \notin {NoError, "JacquesClass", "FunctionDeclaration",
                             "LambdaExpression", "MethodDefinition", "Builtin"}
           /\ Raise(c.envs, c.funcs, frames, callStack, log, c.type)
     IN Fails(Called)
  /\ UNCHANGED <<binary, arrays, parser, records, lexer, store>>

InvokeFunction ==
  /\ AtCall
  /\ Len(frames) < MaxDepth
  /\ LET Invoke(c) ==
           /\ c.type = "FunctionDeclaration"
           /\ Enter(invokeFunction(c.envs, c.funcs, c.func, c.args), c,
                    "function", c.funcs[c.func].node.body, TRUE)
     IN Invoke(Called)
  /\ UNCHANGED <<binary, arrays, parser, records, lexer, store>>

InvokeLambda ==
  /\ AtCall
  /\ Len(frames) < MaxDepth
  /\ LET Invoke(c) ==
           /\ c.type = "LambdaExpression"
           /\ Enter(invokeLambda(c.envs, c.funcs, c.func, c.args), c,
                    "lambda", <<c.funcs[c.func].node.body>>, TRUE)
     IN Invoke(Called)
  /\ UNCHANGED <<binary, arrays, parser, records, lexer, store>>

InvokeMethod ==
  /\ AtCall
  /\ Len(frames) < MaxDepth
  /\ LET Invoke(c) ==
           /\ c.type = "MethodDefinition"
           /\ Enter(invokeMethod(c.envs, c.funcs, c.func, c.args), c,
                    "method", c.funcs[c.func].node.function.body, FALSE)
     IN Invoke(Called)
  /\ UNCHANGED <<binary, arrays, parser, records, lexer, store>>

\* A call of a class value, JacquesClass.__call__: the instance is returned
\* at once or, if the class has a constructor, once the body of the
\* constructor, entered here with the instance and the arguments, is left.
Instantiate ==
  /\ AtCall
  /\ LET Construct(c, i, func) ==
           /\ Len(frames) < MaxDepth
           /\ Enter(invokeMethod(c.envs, i.funcs, func, <<i.instance>> \o c.args),
                    [func |-> func, args |-> <<i.instance>> \o c.args],
                    "constructor", i.funcs[func].node.function.body, FALSE)
         Made(c, i) ==
           IF c.value.constructorFunc # Null
           THEN Construct(c, i, c.value.constructorFunc.func)
           ELSE Resume(c.envs, i.funcs, frames, callStack,
                       Append(log, [func |-> 0, args |-> c.args, val |-> i.instance]),
                       i.instance)
         Invoke(c) ==
           /\ c.type = "JacquesClass"
           /\ Made(c, instantiate(c.funcs, c.value))
     IN Invoke(Called)
  /\ UNCHANGED <<binary, arrays, parser, records, lexer, store>>

\* evaluateReturnStatement and the loop that receives the ReturnValue: a
\* function, a method and the program return its value; a lambda, whose
\* body result is then no value, returns Number 0.
ExecuteReturn ==
  /\ AtStatement
  /\ Statement.type = "ReturnStatement"
  /\ LET Return(v) ==
           IF v.ret.err # NoError
           THEN Raise(v.envs, v.funcs, frames, callStack, log, v.ret.err)
           ELSE Leave(v.envs, v.funcs,
                      IF Invocation[Len(Invocation)].kind = "lambda" THEN Num(0)
                      ELSE v.ret.val)
     IN Return(IF Statement.argument # NoNode
               THEN evaluate(envs, funcs, Statement.argument, Top.env)
               ELSE Evaluated(envs, funcs, Returned(Null)))
  /\ UNCHANGED <<binary, arrays, parser, records, lexer, store>>

\* What a body returns at its end: a function what its Result holds, a
\* lambda the value of its body, a method and the program the value of the
\* last statement.
BodyValue ==
  CASE Top.kind = "function" -> get(envs, Top.env, "Result").val
    [] Top.kind = "lambda" -> IF Top.last # Null THEN Top.last ELSE Num(0)
    [] Top.kind \in {"method", "constructor", "program"} -> Top.last

EndOfBody ==
  /\ frames # <<>>
  /\ Top.pc > Len(Top.body)
  /\ Top.kind \notin {"if", "while"}
  /\ Leave(envs, funcs, BodyValue)
  /\ UNCHANGED <<binary, arrays, parser, records, lexer, store>>

\* The statement of the innermost frame FR ends with value v; a loop body
\* keeps the value it had when the statement yields none.
Continue(FR, v) ==
  /\ frames' = [FR EXCEPT ![Len(FR)].pc = @ + 1,
                          ![Len(FR)].last =
                             IF FR[Len(FR)].kind = "while" /\ v = Null THEN @ ELSE v]
  /\ ret' = Returned(v)

\* evaluateIfStatement up to the first statement of the branch taken
EnterIf ==
  /\ AtStatement
  /\ Statement.type = "IfStatement"
  /\ LET Branch(c) ==
           IF c.ret.err # NoError
           THEN Raise(c.envs, c.funcs, frames, callStack, log, c.ret.err)
           ELSE IF c.ret.val = Null
           THEN Raise(c.envs, c.funcs, frames, callStack, log, IfConditionNotAValue)
           ELSE /\ envs' = c.envs
                /\ funcs' = c.funcs
                /\ frames' = Append(frames,
                                    Frame("if", Top.env,
                                          IF IfCondition(c.ret.val) THEN Statement.consequent
                                          ELSE IF Statement.alternate # NoNode
                                          THEN Statement.alternate
                                          ELSE <<>>,
                                          0, <<>>))
                /\ UNCHANGED <<ret, callStack, log>>
     IN Branch(evaluate(envs, funcs, Statement.test, Top.env))
  /\ UNCHANGED <<binary, arrays, parser, records, lexer, store>>

\* evaluateWhileStatement up to the first statement of the first iteration,
\* or to its end when the condition is not truthy
EnterWhile ==
  /\ AtStatement
  /\ Statement.type = "WhileStatement"
  /\ LET Loop(c) ==
           IF c.ret.err # NoError
           THEN Raise(c.envs, c.funcs, frames, callStack, log, c.ret.err)
           ELSE /\ envs' = c.envs
                /\ funcs' = c.funcs
                /\ IF WhileConditionValue(c.ret.val)
                   THEN /\ frames' = Append(frames, Frame("while", Top.env,
                                                          Statement.body, 0, <<>>))
                        /\ UNCHANGED ret
                   ELSE Continue(frames, Null)
                /\ UNCHANGED <<callStack, log>>
     IN Loop(evaluate(envs, funcs, Statement.condition, Top.env))
  /\ UNCHANGED <<binary, arrays, parser, records, lexer, store>>

\* A loop that is left when its body has run once.
EndOfBlockOnce ==
  /\ frames # <<>>
  /\ Top.pc > Len(Top.body)
  /\ Top.kind \in {"if", "while"}
  /\ Continue(SubSeq(frames, 1, Len(frames) - 1),
              IF Top.kind = "if" THEN Null ELSE Top.last)
  /\ UNCHANGED <<envs, funcs, callStack, binary, arrays, log, parser, records, lexer,
                 store>>

\* The statements of a branch or of a loop body are done: the if statement
\* yields null; the while statement evaluates its condition again and
\* starts the next iteration or yields the last value of its body.
EndOfBlock ==
  /\ frames # <<>>
  /\ Top.pc > Len(Top.body)
  /\ Top.kind \in {"if", "while"}
  /\ LET Outer(FR) ==
           LET Loop(c) ==
                 IF c.ret.err # NoError
                 THEN Raise(c.envs, c.funcs, frames, callStack, log, c.ret.err)
                 ELSE /\ envs' = c.envs
                      /\ funcs' = c.funcs
                      /\ IF WhileConditionValue(c.ret.val)
                         THEN /\ frames' = [frames EXCEPT ![Len(frames)].pc = 1]
                              /\ UNCHANGED ret
                         ELSE Continue(FR, Top.last)
                      /\ UNCHANGED <<callStack, log>>
           IN IF Top.kind = "if"
              THEN Continue(FR, Null) /\ UNCHANGED <<envs, funcs, callStack, log>>
              ELSE Loop(evaluate(envs, funcs, FR[Len(FR)].body[FR[Len(FR)].pc].condition,
                                 Top.env))
     IN Outer(SubSeq(frames, 1, Len(frames) - 1))
  /\ UNCHANGED <<binary, arrays, parser, records, lexer, store>>

(***************************************************************************)
(* The programs that are run.                                              *)
(***************************************************************************)
MaxCalls == 4   \* statements after the first makeCounter call
MaxLoops == 3   \* iterations a counting loop is asked for

Id(name) == Identifier(name)
Call(name, arguments) == CallExpression(Id(name), arguments)

\* `x := v` or `x = v`, or nothing, and then `x = e` or `x := e` executed by
\* the program itself, or by a function, a lambda or a method it calls.
FirstValues == {NumberLiteral(1), StringLiteral("a"), BooleanLiteral(TRUE)}
SecondValues ==
  { NumberLiteral(2), StringLiteral("hi"), BooleanLiteral(FALSE),
    BinaryExpression("+", Id("x"), NumberLiteral(1)),
    BinaryExpression("+", Id("x"), StringLiteral("!")),
    LambdaExpression(<<>>, NumberLiteral(1)) }
Sites == {"program", "function", "lambda", "method"}

AssignProgram(bound, first, second, site) ==
  (IF bound THEN <<first>> ELSE <<>>) \o
  CASE site = "program" -> <<second>>
    [] site = "function" ->
         << FunctionDeclaration(Id("setX"), <<>>, <<second>>), Call("setX", <<>>) >>
    [] site = "lambda" ->
         << Assignment(Id("setX"), TRUE, LambdaExpression(<<>>, second)),
            Call("setX", <<>>) >>
    [] site = "method" ->
         << ClassDeclaration(Id("A"),
              <<MethodDefinition(Id("SetX"),
                                 FunctionDeclaration(Id("SetX"), <<>>, <<second>>))>>),
            Assignment(Id("a"), TRUE, Call("A", <<>>)),
            CallExpression(MemberExpression(Id("a"), Id("SetX")), <<>>) >>

AssignPrograms ==
  { AssignProgram(bound, Assignment(Id("x"), c1, v), Assignment(Id("x"), c2, e), site) :
      bound \in BOOLEAN, c1 \in BOOLEAN, v \in FirstValues,
      c2 \in BOOLEAN, e \in SecondValues, site \in Sites }

\* The counter of functions.test.ts: makeCounter and the function it returns
Increment ==
  FunctionDeclaration(NoNode, <<>>,
    << Assignment(Id("counter"), FALSE,
                  BinaryExpression("+", Id("counter"), NumberLiteral(1))),
       Assignment(Id("Result"), TRUE, Id("counter")) >>)
MakeCounter ==
  FunctionDeclaration(Id("makeCounter"), <<>>,
    << Assignment(Id("counter"), FALSE, NumberLiteral(0)),
       Assignment(Id("Result"), TRUE, Increment) >>)

\* `c1 := makeCounter()` and then, in any order, calls of c1, calls of c2 and
\* `c2 = makeCounter()`; a global `counter` may exist before all of it.
CounterStatement(s) ==
  IF s = "makeCounter" THEN Assignment(Id("c2"), FALSE, Call("makeCounter", <<>>))
  ELSE Assignment(Id("r"), FALSE, Call(s, <<>>))
CounterPrograms ==
  { (IF global THEN <<Assignment(Id("counter"), FALSE, NumberLiteral(1))>> ELSE <<>>) \o
    <<MakeCounter, Assignment(Id("c1"), TRUE, Call("makeCounter", <<>>))>> \o
    [i \in 1..MaxCalls |-> CounterStatement(calls[i])] :
      global \in BOOLEAN, calls \in [1..MaxCalls -> {"c1", "c2", "makeCounter"}] }

\* f with the parameters (y, b = y) or (y = 1, b = y) as a named function,
\* a function expression or a lambda that returns b, called with zero to
\* two arguments after y, if it is bound at all, has changed from 1 to 2.
DefaultProgram(form, first, arguments, bound) ==
  LET params == <<Parameter("y", first), Parameter("b", Id("y"))>>
      body == <<Assignment(Id("Result"), TRUE, Id("b"))>>
  IN (IF bound THEN <<Assignment(Id("y"), FALSE, NumberLiteral(1))>> ELSE <<>>) \o
     << CASE form = "function" -> FunctionDeclaration(Id("f"), params, body)
          [] form = "expression" ->
               Assignment(Id("f"), TRUE, FunctionDeclaration(NoNode, params, body))
          [] form = "lambda" ->
               Assignment(Id("f"), TRUE, LambdaExpression(params, Id("b"))) >> \o
     (IF bound THEN <<Assignment(Id("y"), FALSE, NumberLiteral(2))>> ELSE <<>>) \o
     << Assignment(Id("r"), FALSE, Call("f", arguments)) >>

DefaultPrograms ==
  { DefaultProgram(form, first, SubSeq(<<NumberLiteral(7), NumberLiteral(8)>>, 1, n), bound) :
      form \in {"function", "expression", "lambda"},
      first \in {NoNode, NumberLiteral(1)}, n \in 0..2, bound \in BOOLEAN }

\* A body that assigns Result, or not, and ends with another statement, a
\* call or a return, or not, as the body of a named function, of a
\* function expression and of a method; `r = <call of it>` runs it.
Inner == FunctionDeclaration(Id("inner"), <<>>,
                             <<Assignment(Id("Result"), TRUE, NumberLiteral(2))>>)
Bodies ==
  LET result == Assignment(Id("Result"), TRUE, NumberLiteral(5))
      other == Assignment(Id("t"), FALSE, NumberLiteral(7))
  IN { <<>>, <<result>>, <<other>>, <<result, other>>,
       <<result, ReturnStatement(NumberLiteral(9))>>,
       <<result, Assignment(Id("t"), FALSE, Call("inner", <<>>))>> }

ResultProgram(form, body) ==
  <<Inner>> \o
  CASE form = "function" ->
         << FunctionDeclaration(Id("f"), <<>>, body),
            Assignment(Id("r"), FALSE, Call("f", <<>>)) >>
    [] form = "expression" ->
         << Assignment(Id("f"), TRUE, FunctionDeclaration(NoNode, <<>>, body)),
            Assignment(Id("r"), FALSE, Call("f", <<>>)) >>
    [] form = "method" ->
         << ClassDeclaration(Id("A"),
              <<MethodDefinition(Id("M"), FunctionDeclaration(Id("M"), <<>>, body))>>),
            Assignment(Id("a"), TRUE, Call("A", <<>>)),
            Assignment(Id("r"), FALSE,
                       CallExpression(MemberExpression(Id("a"), Id("M")), <<>>)) >>

ResultPrograms ==
  { ResultProgram(form, body) :
      form \in {"function", "expression", "method"}, body \in Bodies }

\* f, a named function or a function expression, assigns Result, then meets
\* `return 9` at some depth of if and while blocks, or skips it, and would
\* then set the global mark; the program, or a branch of it, calls f and
\* goes on.
ReturnPrograms ==
  LET return == ReturnStatement(NumberLiteral(9))
      mark == Assignment(Id("mark"), FALSE, NumberLiteral(1))
      If(test, body) == IfStatement(test, body \o <<mark>>, NoNode)
      Else(body) == IfStatement(NumberLiteral(0), <<mark>>, body \o <<mark>>)
      While(body) ==
        WhileStatement(BinaryExpression("<", Id("i"), NumberLiteral(2)),
                       <<Assignment(Id("i"), FALSE,
                                    BinaryExpression("+", Id("i"), NumberLiteral(1)))>>
                       \o body \o <<mark>>)
      Blocks == { <<return>>,
                  <<If(BooleanLiteral(TRUE), <<return>>)>>,
                  <<If(BooleanLiteral(FALSE), <<return>>)>>,
                  <<Else(<<return>>)>>,
                  <<While(<<return>>)>>,
                  <<If(NumberLiteral(1), <<While(<<return>>)>>)>>,
                  <<While(<<If(BooleanLiteral(TRUE), <<return>>)>>)>>,
                  <<While(<<Else(<<return>>)>>)>>,
                  <<While(<<If(BinaryExpression(">", Id("i"), NumberLiteral(1)),
                               <<return>>)>>)>> }
      Body(block) ==
        << Assignment(Id("Result"), TRUE, NumberLiteral(5)),
           Assignment(Id("i"), FALSE, NumberLiteral(0)) >> \o block \o <<mark>>
      Declared(named, body) ==
        IF named THEN FunctionDeclaration(Id("f"), <<>>, body)
        ELSE Assignment(Id("f"), TRUE, FunctionDeclaration(NoNode, <<>>, body))
      Calls == << Assignment(Id("r"), FALSE, Call("f", <<>>)),
                  Assignment(Id("s"), FALSE, NumberLiteral(1)) >>
  IN { << Assignment(Id("mark"), FALSE, NumberLiteral(0)), Declared(named, Body(block)) >>
       \o (IF nested THEN <<IfStatement(BooleanLiteral(TRUE), Calls, NoNode)>> ELSE Calls) :
         named \in BOOLEAN, block \in Blocks, nested \in BOOLEAN }

\* `if c ... end` and `while c ... end` for a condition c of every kind of
\* value; the loop body returns, so that a loop entered is left.
ConditionPrograms ==
  LET hit == Assignment(Id("hit"), FALSE, NumberLiteral(1))
      Conditions ==
        { NumberLiteral(0), NumberLiteral(1), StringLiteral(""), StringLiteral("x"),
          BooleanLiteral(TRUE), BooleanLiteral(FALSE),
          ArrayLiteral(<<>>), ArrayLiteral(<<NumberLiteral(1)>>),
          ObjectLiteral(<<>>),
          ObjectLiteral(<<[key |-> "a", value |-> NumberLiteral(1)]>>),
          Id("Println"), Id("A"), Id("undefined") }
  IN { << ClassDeclaration(Id("A"), <<>>),
          Assignment(Id("hit"), FALSE, NumberLiteral(0)),
          IF loop THEN WhileStatement(c, <<hit, ReturnStatement(NumberLiteral(0))>>)
          ELSE IfStatement(c, <<hit>>, NoNode) >> :
       c \in Conditions, loop \in BOOLEAN }

\* The loops of the while tests: `counter = 0; while counter < n ... end`,
\* and `while counter > n`, whose body counts its runs before it increments
\* counter.
LoopPrograms ==
  LET Plus1(name) ==
        Assignment(Id(name), FALSE, BinaryExpression("+", Id(name), NumberLiteral(1)))
  IN { << Assignment(Id("n"), TRUE, NumberLiteral(n)),
          Assignment(Id("counter"), FALSE, NumberLiteral(0)),
          Assignment(Id("runs"), FALSE, NumberLiteral(0)),
          WhileStatement(BinaryExpression(operator, Id("counter"), Id("n")),
                         <<Plus1("runs"), Plus1("counter")>>) >> :
       n \in 0..MaxLoops, operator \in {"<", ">"} }

\* new Interpreter(ast), about to execute ast
Load(program) ==
  /\ frames = <<Frame("program", GlobalEnv, program, 0, <<>>)>>
  /\ envs = <<NewEnvironment(0), initializeBuiltins>>
  /\ funcs = BuiltinFuncs
  /\ callStack = <<>>
  /\ log = <<>>
  /\ ret = Returned(Null)
  /\ binary = [operator |-> "+", left |-> Null, right |-> Null, evaluated |-> "no"]
  /\ arrays = <<>>
  /\ parser = <<>>
  /\ records = <<>>
  /\ lexer = <<>> /\ store = <<>>

\* Class C has the constructor `constructor(@a, @b)` with one of several
\* bodies, a setter whose assignment is written `self.p = v` or `@p = v`,
\* and a getter of a; the program makes two instances and uses the first or
\* the second, then sets the global done.
ClassPrograms ==
  LET Set(target, value) == Assignment(target, FALSE, value)
      selfP == MemberExpression(Id("self"), Id("p"))
      Fail == FunctionDeclaration(Id("Fail"), <<>>, <<Set(Id("t"), Id("undefined"))>>)
      ConstructorBodies ==
        { <<>>,
          <<Set(Id("t"), NumberLiteral(5))>>,
          <<Set(Id("t"), BinaryExpression("/", NumberLiteral(1), NumberLiteral(0)))>>,
          <<Set(Id("t"), Id("undefined")), Set(Id("mark"), NumberLiteral(1))>>,
          <<Call("Fail", <<>>), Set(Id("mark"), NumberLiteral(1))>>,
          <<Set(selfP, NumberLiteral(7))>>,
          <<Set(Id("@p"), NumberLiteral(7))>> }
      C(body, target) ==
        ClassDeclaration(Id("C"),
          << ConstructorDefinition(
               FunctionDeclaration(NoNode, <<ShorthandParameter("a"),
                                             ShorthandParameter("b")>>, body)),
             MethodDefinition(Id("SetP"),
               FunctionDeclaration(Id("SetP"), <<Parameter("v", NoNode)>>,
                                   <<Set(target, Id("v"))>>)),
             MethodDefinition(Id("GetA"),
               FunctionDeclaration(Id("GetA"), <<>>, <<ReturnStatement(Id("@a"))>>)) >>)
      Member(object, property) == MemberExpression(Id(object), Id(property))
      Uses ==
        { <<Set(Id("r"), Member("c1", "a"))>>,
          <<Set(Id("r"), Member("c2", "b"))>>,
          <<Set(Id("r"), Member("c2", "name"))>>,
          <<CallExpression(Member("c1", "SetP"), <<NumberLiteral(5)>>),
            Set(Id("r"), Member("c1", "p"))>>,
          <<Set(Id("r"), CallExpression(Member("c2", "GetA"), <<>>))>> }
  IN { << Fail, C(body, target),
          Assignment(Id("c1"), TRUE, Call("C", <<NumberLiteral(1), NumberLiteral(2)>>)),
          Assignment(Id("c2"), TRUE, Call("C", <<NumberLiteral(3), NumberLiteral(4)>>)) >>
       \o use \o <<Set(Id("done"), NumberLiteral(1))>> :
       body \in ConstructorBodies, target \in {selfP, Id("@p")}, use \in Uses }

\* `import <one or two names> from <file>; r = <name>; done = 1;`
ImportPrograms ==
  LET Imported == {"x", "y", "z", "w", "q"}
      Specifiers == {<<Id(a)>> : a \in Imported} \cup {<<Id(a), Id(b)>> : a, b \in Imported}
  IN { << ImportDeclaration(specifiers, StringLiteral(source)),
          Assignment(Id("r"), FALSE, Id(name)),
          Assignment(Id("done"), FALSE, NumberLiteral(1)) >> :
       specifiers \in Specifiers, source \in {"m1", "m2", "m3", "m4"},
       name \in {"x", "y"} }

\* `<name> = 5;` (or nothing), then a read of the name at top level, in the
\* body of a function or a function expression, in a lambda or in a method,
\* and `done = 1;`: the name is one of the builtins.
BuiltinPrograms ==
  LET Read(form, name) ==
        CASE form = "program" -> <<Assignment(Id("r"), FALSE, Id(name))>>
          [] form = "function" ->
               << FunctionDeclaration(Id("f"), <<>>,
                                      <<Assignment(Id("Result"), FALSE, Id(name))>>),
                  Assignment(Id("r"), FALSE, Call("f", <<>>)) >>
          [] form = "expression" ->
               << Assignment(Id("f"), TRUE,
                             FunctionDeclaration(NoNode, <<>>,
                                                 <<ReturnStatement(Id(name))>>)),
                  Assignment(Id("r"), FALSE, Call("f", <<>>)) >>
          [] form = "lambda" ->
               << Assignment(Id("f"), TRUE, LambdaExpression(<<>>, Id(name))),
                  Assignment(Id("r"), FALSE, Call("f", <<>>)) >>
          [] form = "method" ->
               << ClassDeclaration(Id("A"),
                    <<MethodDefinition(Id("M"),
                        FunctionDeclaration(Id("M"), <<>>, <<ReturnStatement(Id(name))>>))>>),
                  Assignment(Id("a"), TRUE, Call("A", <<>>)),
                  Assignment(Id("r"), FALSE,
                             CallExpression(MemberExpression(Id("a"), Id("M")), <<>>)) >>
      Bound(name, isConstant) == <<Assignment(Id(name), isConstant, NumberLiteral(5))>>
  IN { bound \o Read(form, name) \o <<Assignment(Id("done"), FALSE, NumberLiteral(1))>> :
       bound \in {<<>>} \cup {Bound(n, c) : n \in {"Println", "Number", "Map"},
                                           c \in BOOLEAN},
       form \in {"program", "function", "expression", "lambda", "method"},
       name \in {"Println", "Number", "Map"} }

\* `x := true;` (or nothing), then `r = (x = a) op (q = b);`, both operands
\* assignments, q being x or y; or `r = callee((x = 1), (q = 2));` after
\* `function f(a, b) Result = x; end` and `n = 5;`, the callee being f, n or
\* the unbound g; and `done = 1;`.
OrderPrograms ==
  LET Operand(name, value) == Assignment(Id(name), FALSE, value)
      Values == {BooleanLiteral(TRUE), BooleanLiteral(FALSE), NumberLiteral(1)}
      Done == <<Assignment(Id("done"), FALSE, NumberLiteral(1))>>
      f == FunctionDeclaration(Id("f"), <<Parameter("a", NoNode), Parameter("b", NoNode)>>,
                               <<Assignment(Id("Result"), FALSE, Id("x"))>>)
  IN { bound \o <<Assignment(Id("r"), FALSE,
                             BinaryExpression(op, Operand("x", a), Operand(q, b)))>>
             \o Done :
       bound \in {<<>>, <<Assignment(Id("x"), TRUE, BooleanLiteral(TRUE))>>},
       op \in {"&&", "||", "+", "=="}, a \in Values, b \in Values, q \in {"x", "y"} }
     \cup
     { <<f, Assignment(Id("n"), FALSE, NumberLiteral(5)),
         Assignment(Id("r"), FALSE,
                    Call(callee, <<Operand("x", NumberLiteral(1)),
                                   Operand(q, NumberLiteral(2))>>))>> \o Done :
       callee \in {"f", "g", "n"}, q \in {"x", "y"} }

\* `x := 1;` or `x = 1;`, then a declaration of the same name, `x: Type`,
\* `function x() return 2; end` or `class x end`, or the assignment
\* `x = 2;`, at top level or in the body of a function that binds x itself;
\* then `r = x;` and `done = 1;`.
RedeclarePrograms ==
  LET Declarations ==
        { TypeDeclaration(Id("x"), t) : t \in {"Number", "String", "Boolean", "Array",
                                               "Record", "Shape"} }
        \cup { FunctionDeclaration(Id("x"), <<>>, <<ReturnStatement(NumberLiteral(2))>>),
               ClassDeclaration(Id("x"), <<>>),
               Assignment(Id("x"), FALSE, NumberLiteral(2)) }
      Statements(c, d) ==
        <<Assignment(Id("x"), c, NumberLiteral(1)), d, Assignment(Id("r"), FALSE, Id("x"))>>
      Done == <<Assignment(Id("done"), FALSE, NumberLiteral(1))>>
  IN { Statements(c, d) \o Done : c \in BOOLEAN, d \in Declarations }
     \cup
     { <<FunctionDeclaration(Id("f"), <<>>, Statements(c, d)), Call("f", <<>>)>> \o Done :
       c \in BOOLEAN, d \in Declarations }

InitProgram ==
  \/ \E program \in AssignPrograms : Load(program)
  \/ \E program \in CounterPrograms : Load(program)
  \/ \E program \in DefaultPrograms : Load(program)
  \/ \E program \in ResultPrograms : Load(program)
  \/ \E program \in ReturnPrograms : Load(program)
  \/ \E program \in ConditionPrograms : Load(program)
  \/ \E program \in LoopPrograms : Load(program)
  \/ \E program \in ClassPrograms : Load(program)
  \/ \E program \in ImportPrograms : Load(program)
  \/ \E program \in BuiltinPrograms : Load(program)
  \/ \E program \in OrderPrograms : Load(program)
  \/ \E program \in RedeclarePrograms : Load(program)

NextProgram ==
  \/ ExecuteStatement
  \/ CallFails
  \/ InvokeFunction
  \/ InvokeLambda
  \/ InvokeMethod
  \/ Instantiate
  \/ ExecuteReturn
  \/ EndOfBody
  \/ EnterIf
  \/ EnterWhile
  \/ EndOfBlock

SpecProgram == InitProgram /\ [][NextProgram]_vars

(***************************************************************************)
(* Properties of the run of a program.                                     *)
(***************************************************************************)
\* The assignment the step about to be taken completes, if it completes
\* one: its node, the Environment it is evaluated in, the value of its right
\* side and the environments once the right side has been evaluated.  The
\* right side is evaluated by the step itself, or it is a call that returns
\* or a class without a constructor that is instantiated in this step; a
\* constructor that returns delivers the instance.
Assigning ==
  LET None == [pending |-> FALSE]
      Pending(node, env, S) ==
        IF node.type = "Assignment" /\ node.left.type = "Identifier"
        THEN [pending |-> S.ret.err = NoError, node |-> node, env |-> env,
              envs |-> S.envs, value |-> S.ret.val]
        ELSE None
      Caller == frames[Len(Invocation) - 1]
      Instance(c) ==
        IF c.type = "JacquesClass" /\ c.value.constructorFunc = Null
        THEN Pending(Statement, Top.env,
                     Evaluated(c.envs, c.funcs,
                               Returned(instantiate(c.funcs, c.value).instance)))
        ELSE None
      Value(v) == IF v.ret.err # NoError THEN v
                  ELSE CASE Invocation[Len(Invocation)].kind = "lambda" ->
                              [v EXCEPT !.ret = Returned(Num(0))]
                         [] Invocation[Len(Invocation)].kind = "constructor" ->
                              [v EXCEPT !.ret = Returned(Invocation[Len(Invocation)].args[1])]
                         [] OTHER -> v
  IN IF frames = <<>> THEN None
     ELSE IF Top.pc > Len(Top.body)
     THEN IF Len(frames) = 1 \/ Top.kind \in {"if", "while"} THEN None
          ELSE Pending(Caller.body[Caller.pc], Caller.env,
                       Evaluated(envs, funcs,
                                 Returned(IF Top.kind = "constructor" THEN Top.args[1]
                                          ELSE BodyValue)))
     ELSE IF Statement.type = "ReturnStatement"
     THEN IF Len(Invocation) = 1 THEN None
          ELSE Pending(Caller.body[Caller.pc], Caller.env,
                       Value(IF Statement.argument # NoNode
                             THEN evaluate(envs, funcs, Statement.argument, Top.env)
                             ELSE Evaluated(envs, funcs, Returned(Null))))
     ELSE IF CallNode.type = "CallExpression" THEN Instance(Called)
     ELSE IF Statement.type = "Assignment"
     THEN Pending(Statement, Top.env, evaluate(envs, funcs, Statement.right, Top.env))
     ELSE None

\* C1: an assignment to a name no visible scope binds creates a binding
\* that is constant exactly if the assignment is `:=`; an assignment, in the
\* defining scope or in the body of a function, lambda or method that sees
\* the binding, of a value of the same type as the one a constant binding
\* holds fails with ConstantReassignment and leaves the binding as it was;
\* the same assignment to a mutable binding succeeds and the name then
\* reads the new value.
C1_ConstantBinding ==
  [][LET Holds(a, o) ==
           /\ a.envs[o].values[a.node.left.name].value.kind = a.value.kind
           => IF a.envs[o].values[a.node.left.name].constantBinding
              THEN /\ ret' = Thrown(ConstantReassignment)
                   /\ frames' = <<>>
                   /\ envs'[o].values[a.node.left.name]
                        = a.envs[o].values[a.node.left.name]
                   /\ get(envs', a.env, a.node.left.name)
                        = Returned(a.envs[o].values[a.node.left.name].value)
              ELSE /\ ret' = Returned(a.value)
                   /\ envs'[o].values[a.node.left.name] = StoredValue(a.value, FALSE)
                   /\ get(envs', a.env, a.node.left.name) = Returned(a.value)
         Check(a) ==
           (a.pending /\ a.value # Null) =>
             IF Innermost(a.envs, a.env, a.node.left.name) = 0
             THEN /\ a.node.left.name \in DOMAIN envs'[a.env].values
                  /\ envs'[a.env].values[a.node.left.name]
                       = StoredValue(a.value, a.node.isConstant)
             ELSE Holds(a, Innermost(a.envs, a.env, a.node.left.name))
     IN Check(Assigning)
    ]_vars

\* `x = e` has failed with ConstantReassignment in the body of a method,
\* and the global constant x still holds the Number it was bound to.
C1_Witness ==
  /\ ret = Thrown(ConstantReassignment)
  /\ frames = <<>>
  /\ "x" \in DOMAIN envs[GlobalEnv].values
  /\ envs[GlobalEnv].values["x"] = StoredValue(Num(1), TRUE)
  /\ \E e \in 1..Len(envs) :
       "self" \in DOMAIN envs[e].values /\ envs[e].enclosing = GlobalEnv

\* C2 as stated: an assignment to a name bound to a mutable binding of a
\* value whose type differs from the type of the value the binding holds
\* fails with TypeMismatch and leaves the binding as it was.
C2_TypeMismatch ==
  [][LET Fails(a, o) ==
           (/\ ~a.envs[o].values[a.node.left.name].constantBinding
            /\ a.envs[o].values[a.node.left.name].value # Null
            /\ a.envs[o].values[a.node.left.name].value.kind # a.value.kind)
           => /\ ret' = Thrown(TypeMismatch)
              /\ envs'[o].values[a.node.left.name]
                   = a.envs[o].values[a.node.left.name]
         Check(a) ==
           (/\ a.pending
            /\ a.value # Null
            /\ Innermost(a.envs, a.env, a.node.left.name) # 0)
           => Fails(a, Innermost(a.envs, a.env, a.node.left.name))
     IN Check(Assigning)
    ]_vars

\* The closures made of Increment whose captured scope, the Environment of
\* one makeCounter call, has a counter binding of its own.
Counters ==
  {f \in 1..Len(funcs) :
     /\ funcs[f].node = Increment
     /\ "counter" \in DOMAIN envs[funcs[f].env].values}

\* C3: the n-th call that returns from a closure made by a makeCounter
\* call that created its own counter returns n, whatever calls of the
\* closures of other makeCounter calls come between.
C3_CounterCounts ==
  \A j \in 1..Len(log) :
    log[j].func \in Counters =>
      log[j].val = Num(Cardinality({i \in 1..j : log[i].func = log[j].func}))

\* Two counters, and the first one has returned 1 and then 2 with a call
\* of the second one in between.
C3_Witness ==
  \E i, j, k \in 1..Len(log) :
    /\ i < j /\ j < k
    /\ {log[i].func, log[j].func} \subseteq Counters
    /\ log[i].func = log[k].func
    /\ log[i].func # log[j].func
    /\ log[i].val = Num(1) /\ log[j].val = Num(1) /\ log[k].val = Num(2)

\* C9 as stated: a call of a function or lambda with fewer arguments than
\* parameters fails, and no body is entered, when a missing parameter has no
\* default value; otherwise the body is entered with every missing
\* parameter bound to the value its default-value expression has, at the
\* time of the call, in the Environment the closure was created in.
C9_MissingParameterFails ==
  [][LET Default(c, param) ==
           evaluate(c.envs, c.funcs, param.defaultValue, c.funcs[c.func].env).ret
         Check(c, params, missing) ==
           IF \E i \in missing : params[i].defaultValue = NoNode
           THEN ret'.err # NoError /\ frames' = <<>>
           ELSE (\A i \in missing : Default(c, params[i]).err = NoError) =>
                  /\ Len(frames') = Len(frames) + 1
                  /\ \A i \in missing :
                       envs'[frames'[Len(frames')].env].values[params[i].name].value
                         = Default(c, params[i]).val
         Binds(c) ==
           c.type \in {"FunctionDeclaration", "LambdaExpression"} =>
             Check(c, c.funcs[c.func].node.params,
                   (Len(c.args) + 1)..Len(c.funcs[c.func].node.params))
     IN (AtCall /\ Len(frames) < MaxDepth) => Binds(Called)
    ]_vars

\* C9 amended: a call of a named function or a function expression with a
\* missing parameter that has no default value fails, with MissingArgument
\* unless a default value before it fails, and enters no body; a call of a
\* lambda binds such a parameter to Number 0 and evaluates the body.  Every
\* missing parameter with a default value is bound to the value its
\* default-value expression has, at the time of the call, in the Environment
\* the closure was created in.
C9_MissingParameterDefaults ==
  [][LET Default(c, param) ==
           IF param.defaultValue # NoNode
           THEN evaluate(c.envs, c.funcs, param.defaultValue, c.funcs[c.func].env).ret
           ELSE Returned(Num(0))
         Check(c, params, missing) ==
           IF /\ c.type = "FunctionDeclaration"
              /\ \E i \in missing : params[i].defaultValue = NoNode
           THEN /\ ret'.err # NoError
                /\ frames' = <<>>
                /\ (\A i \in missing : Default(c, params[i]).err = NoError)
                     => ret' = Thrown(MissingArgument)
           ELSE (\A i \in missing : Default(c, params[i]).err = NoError) =>
                  /\ Len(frames') = Len(frames) + 1
                  /\ \A i \in missing :
                       envs'[frames'[Len(frames')].env].values[params[i].name].value
                         = Default(c, params[i]).val
         Binds(c) ==
           c.type \in {"FunctionDeclaration", "LambdaExpression"} =>
             Check(c, c.funcs[c.func].node.params,
                   (Len(c.args) + 1)..Len(c.funcs[c.func].node.params))
     IN (AtCall /\ Len(frames) < MaxDepth) => Binds(Called)
    ]_vars

\* A lambda with the parameters (y, b = y) has been called without
\* arguments and is about to evaluate its body: y is Number 0 and b is the
\* 2 the global y holds.
C9_Witness ==
  /\ frames # <<>>
  /\ Top.kind = "lambda"
  /\ Top.args = <<>>
  /\ Top.pc = 1
  /\ {"y", "b"} \subseteq DOMAIN envs[Top.env].values
  /\ envs[Top.env].values["y"].value = Num(0)
  /\ envs[Top.env].values["b"].value = Num(2)

\* C10 as stated: the body of a function or of a method starts with a
\* Result binding of its own that holds Number 0; a body that ends without
\* return returns what its Result holds then; and no step of a callee
\* changes the Result binding of a caller.
C10_ResultBinding ==
  [][/\ (/\ Len(frames') > Len(frames)
         /\ frames'[Len(frames')].kind \in {"function", "method"})
        => /\ "Result" \in DOMAIN envs'[frames'[Len(frames')].env].values
           /\ envs'[frames'[Len(frames')].env].values["Result"].value = Num(0)
     /\ (/\ Len(frames) > 1
         /\ Top.pc > Len(Top.body)
         /\ Top.kind \in {"function", "method"})
        => /\ has(envs, Top.env, "Result")
           /\ log' = Append(log, [func |-> Top.func, args |-> Top.args,
                                  val |-> get(envs, Top.env, "Result").val])
     /\ \A i \in 1..(Len(frames) - 1) :
          (/\ Len(frames') >= Len(frames)
           /\ frames[i].kind \in {"function", "method"}
           /\ "Result" \in DOMAIN envs[frames[i].env].values)
          => envs'[frames[i].env].values["Result"]
               = envs[frames[i].env].values["Result"]
    ]_vars

\* C11: when `return e` executes in the body of a function, at whatever
\* depth of if and while blocks, the call ends in that step: the body and
\* every branch and loop in execution in it are left, the call has returned
\* the value of e, and the statement of the caller that made the call is
\* completed with that value, so that the caller goes on with its next
\* statement (or fails in its own assignment).
C11_ReturnEndsInvocation ==
  [][LET Returns(v, FR) ==
           (v.ret.err = NoError /\ Len(FR) > 1 /\ FR[Len(FR)].kind = "function")
           => /\ log' = Append(log, [func |-> FR[Len(FR)].func,
                                     args |-> FR[Len(FR)].args, val |-> v.ret.val])
              /\ \/ frames' = <<>> /\ ret'.err # NoError
                 \/ /\ Len(frames') = Len(FR) - 1
                    /\ \A k \in 1..(Len(FR) - 2) : frames'[k] = frames[k]
                    /\ frames'[Len(FR) - 1].body = frames[Len(FR) - 1].body
                    /\ frames'[Len(FR) - 1].pc = frames[Len(FR) - 1].pc + 1
                    /\ ret' = Returned(v.ret.val)
                    /\ callStack' = SubSeq(callStack, 1, Len(callStack) - 1)
     IN (AtStatement /\ Statement.type = "ReturnStatement" /\ Statement.argument # NoNode)
        => Returns(evaluate(envs, funcs, Statement.argument, Top.env), Invocation)
    ]_vars

\* f has returned 9 from inside a loop in its first iteration; the program
\* went on and ended: r is 9, s is bound and mark is as it was.
C11_Witness ==
  /\ frames = <<>>
  /\ ret.err = NoError
  /\ Len(log) = 1 /\ log[1].val = Num(9)
  /\ {"r", "s", "mark"} \subseteq DOMAIN envs[GlobalEnv].values
  /\ envs[GlobalEnv].values["r"].value = Num(9)
  /\ envs[GlobalEnv].values["mark"].value = Num(0)
  /\ \E e \in 1..Len(envs) :
       /\ "i" \in DOMAIN envs[e].values
       /\ envs[e].values["i"].value = Num(1)

\* C12 as stated: an if statement takes its consequent branch, and a while
\* statement enters its body, exactly if the value of the condition is a
\* Boolean that is true, a Number that is not zero, a String, Array or
\* Record that is not empty; for any other value they do not.
C12_SameTruthiness ==
  [][LET Truthy(v) ==
           CASE v.kind = "JacquesBoolean" -> v.bool
             [] v.kind = "JacquesNumber" -> ~IsZero(v)
             [] v.kind = "JacquesString" -> v.str # ""
             [] v.kind = "JacquesArray" -> v.elements # <<>>
             [] v.kind = "JacquesRecord" -> v.properties # <<>>
             [] OTHER -> FALSE
         Decides(c, body) ==
           c.ret.err = NoError
           => (Truthy(c.ret.val)
               <=> /\ Len(frames') = Len(frames) + 1
                   /\ frames'[Len(frames')].body = body)
     IN /\ (AtStatement /\ Statement.type = "IfStatement")
           => Decides(evaluate(envs, funcs, Statement.test, Top.env),
                      Statement.consequent)
        /\ (AtStatement /\ Statement.type = "WhileStatement")
           => Decides(evaluate(envs, funcs, Statement.condition, Top.env),
                      Statement.body)
    ]_vars

\* C13: in `counter = 0; while counter < n  runs = runs + 1;
\* counter = counter + 1; end` every iteration starts with counter < n and
\* as many runs as counter counts, runs the two statements of the body, and
\* the loop ends with counter = n after n runs; a loop whose condition is
\* not truthy at first (`counter > n`) ends with counter and runs as they
\* were and no other binding made.
C13_WhileCounts ==
  LET Value(name) == envs[GlobalEnv].values[name].value.num
      Body(pc) ==
        CASE pc = 1 -> Value("runs") = Value("counter") /\ Value("counter") < Value("n")
          [] pc = 2 -> Value("runs") = Value("counter") + 1 /\ Value("counter") < Value("n")
          [] pc = 3 -> Value("runs") = Value("counter") /\ Value("counter") <= Value("n")
      Loop(while) ==
        /\ Len(frames) = 2 => (frames[2].kind = "while" /\ Body(frames[2].pc))
        /\ (Len(frames) = 1 /\ frames[1].pc = 5)
           => /\ DOMAIN envs[GlobalEnv].values = {"n", "counter", "runs"}
              /\ Value("counter") = Value("runs")
              /\ Value("counter") = IF while.condition.operator = "<" THEN Value("n") ELSE 0
  IN (/\ frames # <<>>
      /\ Len(frames[1].body) = 4
      /\ frames[1].body[4].type = "WhileStatement"
      /\ frames[1].pc >= 4)
     => Loop(frames[1].body[4])

\* The loop asked for two iterations or more has ended.
C13_Witness ==
  /\ Len(frames) = 1
  /\ Len(frames[1].body) = 4
  /\ frames[1].body[4].type = "WhileStatement"
  /\ frames[1].body[4].condition.operator = "<"
  /\ frames[1].pc = 5
  /\ envs[GlobalEnv].values["n"].value.num >= 2
  /\ envs[GlobalEnv].values["counter"].value.num = envs[GlobalEnv].values["n"].value.num

\* C14 as stated: every instance made by C(u, v), C's constructor declaring
\* the shorthand parameters @a and @b, has property a equal to u and
\* property b equal to v, from before the constructor body runs and in
\* every instance that was ever returned.
C14_ShorthandProperties ==
  LET Holds(instance, args) ==
        /\ Property(instance, "a") = args[1]
        /\ Property(instance, "b") = args[2]
  IN /\ \A k \in 1..Len(frames) :
          frames[k].kind = "constructor"
          => Holds(frames[k].args[1], Tail(frames[k].args))
     /\ \A i \in 1..Len(log) :
          (log[i].func = 0 /\ Len(log[i].args) = 2) => Holds(log[i].val, log[i].args)

\* C15 as stated: executing `self.p = v` or `@p = v` in a body where self is
\* bound fails with nothing and leaves p equal to v in the instance bound
\* to self.
C15_PropertyAssignment ==
  [][LET OnProperty(left) ==
           \/ left = Identifier("@p")
           \/ left = MemberExpression(Identifier("self"), Identifier("p"))
         Updated(v) ==
           /\ ret'.err = NoError
           /\ Property(get(envs', Top.env, "self").val, "p") = v.ret.val
     IN (/\ AtStatement
         /\ Statement.type = "Assignment"
         /\ OnProperty(Statement.left)
         /\ has(envs, Top.env, "self")
         /\ evaluate(envs, funcs, Statement.right, Top.env).ret.err = NoError)
        => Updated(evaluate(envs, funcs, Statement.right, Top.env))
    ]_vars

\* C16 as stated: a statement whose evaluation fails ends the run with that
\* failure, in whatever body it is executed: no frame is left and the run
\* has thrown.
C16_FailureEndsRun ==
  [][LET Ends(s) ==
           s.ret.err # NoError => (frames' = <<>> /\ ret' = Thrown(s.ret.err))
     IN (/\ AtStatement
         /\ CallNode.type # "CallExpression"
         /\ Statement.type \notin {"ReturnStatement", "IfStatement", "WhileStatement"})
        => Ends(evaluate(envs, funcs, Statement, Top.env))
    ]_vars

\* C17 as stated: an import that does not fail in loading its module
\* defines in the importing scope the names requested and no other, if the
\* module has exported each of them with `export`; else it fails with
\* MissingExport.
C17_ImportsOnlyExports ==
  [][LET file == readFileSync(Statement.source.string)
         requested == {Statement.specifiers[i].name : i \in 1..Len(Statement.specifiers)}
         exported == {file.program[i].declaration.left.name :
                        i \in {j \in 1..Len(file.program) :
                                 file.program[j].type = "ExportDeclaration"}}
         before == DOMAIN envs[Top.env].values
         after == DOMAIN envs'[Top.env].values
     IN (/\ AtStatement
         /\ Statement.type = "ImportDeclaration"
         /\ ret'.err # ImportFailed)
        => /\ after \subseteq before \cup requested
           /\ IF requested \subseteq exported
              THEN ret'.err = NoError /\ after = before \cup requested
              ELSE ret'.err = MissingExport
    ]_vars

(***************************************************************************)
(* The Parser.  A token is its type, its value when it is an identifier or *)
(* an operator, and its number when it is a NUMBER.  A parser is the       *)
(* tokens, the cursor (position, counted from 0, and currentToken), the    *)
(* failure thrown (err), the node or list the last method returned (node), *)
(* the body of the program parse() is building and the program it has      *)
(* returned (ast).  A method of the Parser is an operator from the parser  *)
(* it is called on to the parser it leaves; a parser that has thrown is    *)
(* handed through by every method until a catch rewinds it.  The methods   *)
(* cover the token types of TokenTypes; computed members, array and object *)
(* literals, if, while, import, export and the class member modifiers are  *)
(* not reached by the texts parsed here.                                   *)
(***************************************************************************)
TokenTypes ==
  { "IDENTIFIER", "NUMBER", "LPAREN", "RPAREN", "COMMA", "ARROW", "ASSIGN",
    "CONST_ASSIGN", "PLUS", "MULTIPLY", "DOT", "SEMICOLON", "COLON", "AT",
    "FUNCTION", "END", "RETURN", "RESULT", "SELF", "CLASS", "CONSTRUCTOR", "EOF",
    "AND", "OR", "EQUALS", "NOT_EQUALS", "LESS_THAN", "GREATER_THAN",
    "LESS_THAN_OR_EQUAL", "GREATER_THAN_OR_EQUAL", "MINUS", "DIVIDE", "MODULO", "NOT" }

Token(type, value, number) == [type |-> type, value |-> value, number |-> number]

UnexpectedToken == "Unexpected token"
ConstantParameter == "Parameters cannot be defined as constants"

\* new Parser(tokens)
NewParser(tokens) ==
  [tokens |-> tokens, position |-> 0, currentToken |-> tokens[1],
   err |-> NoError, node |-> NoNode, body |-> <<>>, ast |-> NoNode]

match(S, tokenType) == S.currentToken.type = tokenType

\* The method returns node, unless it has thrown.
Yield(S, node) == IF S.err # NoError THEN S ELSE [S EXCEPT !.node = node]
Fail(S, e) == IF S.err # NoError THEN S ELSE [S EXCEPT !.err = e]

\* eat(tokenType): the cursor moves past the current token, which stays the
\* current one when it is the last.
eat(S, tokenType) ==
  IF S.err # NoError THEN S
  ELSE IF S.currentToken.type = tokenType
  THEN [S EXCEPT !.position = @ + 1,
                 !.currentToken = IF S.position + 1 < Len(S.tokens)
                                  THEN S.tokens[S.position + 2] ELSE @]
  ELSE Fail(S, UnexpectedToken)

optionalSemicolon(S) == IF S.err = NoError /\ match(S, "SEMICOLON")
                        THEN eat(S, "SEMICOLON") ELSE S

\* A rewind that restores the position and leaves the current token.
rewindPosition(S, startPosition) ==
  [S EXCEPT !.position = startPosition, !.err = NoError]

\* catch (e) { this.position = startPosition; this.currentToken =
\* this.tokens[this.position] }, and the same two assignments where a try
\* block gives up without a throw.
rewind(S, startPosition) ==
  [S EXCEPT !.position = startPosition,
            !.currentToken = S.tokens[startPosition + 1],
            !.err = NoError]

numberLiteral(S) == Yield(eat(S, "NUMBER"), NumberLiteral(S.currentToken.number))
identifier(S) == Yield(eat(S, "IDENTIFIER"), Identifier(S.currentToken.value))

\* parseType()
parseType(S) ==
  LET Type(N) == Yield(N, [type |-> "Type", name |-> N.node.name, isArray |-> FALSE])
  IN Type(identifier(S))

\* A parameter with its typeAnnotation, with its defaultValue, or marked as
\* shorthand property.
Annotated(param, typeAnnotation) ==
  [type |-> "Identifier", name |-> param.name, defaultValue |-> NoNode,
   typeAnnotation |-> typeAnnotation]
Shorthand(param) ==
  IF "typeAnnotation" \in DOMAIN param
  THEN [type |-> "Identifier", name |-> param.name, defaultValue |-> param.defaultValue,
        typeAnnotation |-> param.typeAnnotation, isShorthandProperty |-> TRUE]
  ELSE [ShorthandParameter(param.name) EXCEPT !.defaultValue = param.defaultValue]

RECURSIVE invoke(_, _)
RECURSIVE assignmentExpression(_)
RECURSIVE logicalExpression(_)
RECURSIVE unaryExpression(_)
RECURSIVE callMemberExpression(_)
RECURSIVE primaryExpression(_)
RECURSIVE parenthesizedExpression(_)
RECURSIVE functionDeclaration(_)
RECURSIVE lambdaExpression(_)

\* The test of expression() for an assignment ahead: a name and `=` or
\* `:=`, or a name, a dot, a name and `=` or `:=`.
AssignmentAhead(S) ==
  LET type(n) == S.tokens[S.position + n + 1].type
      ahead(n) == S.position + n < Len(S.tokens)
      assigns(n) == ahead(n) /\ type(n) \in {"ASSIGN", "CONST_ASSIGN"}
  IN \/ S.currentToken.type \in {"IDENTIFIER", "RESULT", "AT", "SELF"} /\ assigns(1)
     \/ /\ S.currentToken.type \in {"IDENTIFIER", "SELF"}
        /\ ahead(1) /\ type(1) = "DOT"
        /\ ahead(2) /\ type(2) = "IDENTIFIER"
        /\ assigns(3)

\* expression(): an assignment; or, at `(`, a lambda and, when
\* lambdaExpression() throws, the logical expression at the `(`; or, at an
\* identifier, a lambda of one parameter and, without `=>` or when its
\* body throws, the logical expression at the identifier.
expression(S) ==
  LET Caught(L) ==
        IF L.err = NoError THEN L ELSE logicalExpression(rewind(L, S.position))
      Body(I, B) ==
        IF B.err = NoError THEN Yield(B, LambdaExpression(<<I.node>>, B.node))
        ELSE logicalExpression(rewind(B, S.position))
      Single(I) ==
        IF match(I, "ARROW") THEN Body(I, invoke("expression", eat(I, "ARROW")))
        ELSE logicalExpression(rewind(I, S.position))
  IN IF S.err # NoError THEN S
     ELSE CASE AssignmentAhead(S) -> assignmentExpression(S)
            [] match(S, "LPAREN") -> Caught(lambdaExpression(S))
            [] match(S, "IDENTIFIER") /\ ~AssignmentAhead(S) -> Single(identifier(S))
            [] OTHER -> logicalExpression(S)

\* The parameter list `(a, b, ...)` of bare identifiers, as the lambda
\* attempts of assignmentExpression() and primaryExpression() read it, from
\* the first identifier on; it throws at a comma without identifier.
RECURSIVE identifiers(_, _)
identifiers(S, params) ==
  LET Next(N) == identifiers(N, Append(params, N.node))
  IN IF S.err # NoError THEN S
     ELSE IF params = <<>> THEN Next(identifier(S))
     ELSE IF match(S, "COMMA") THEN Next(identifier(eat(S, "COMMA")))
     ELSE Yield(S, params)

\* assignmentExpression(): the left side, `=` or `:=`, and the right side,
\* which at `(` is first tried as a lambda of bare identifiers.
assignmentExpression(S) ==
  LET self == Identifier("self")
      Left ==
        CASE match(S, "IDENTIFIER") -> identifier(S)
          [] match(S, "RESULT") -> Yield(eat(S, "RESULT"), Identifier("Result"))
          [] match(S, "AT") ->
               LET Named(N) == Yield(N, Identifier("@" \o N.node.name))
               IN Named(identifier(eat(S, "AT")))
          [] match(S, "SELF") ->
               LET OfSelf(N) == Yield(N, MemberExpression(self, N.node))
                   Self(N) == IF match(N, "DOT") THEN OfSelf(identifier(eat(N, "DOT")))
                              ELSE Yield(N, self)
               IN Self(eat(S, "SELF"))
          [] OTHER -> Fail(S, "Expected identifier, Result, @property, or self")
      RECURSIVE Members(_)
      Members(L) ==
        LET Member(N) == Members(Yield(N, MemberExpression(L.node, N.node)))
        IN IF L.err = NoError /\ match(L, "DOT") THEN Member(identifier(eat(L, "DOT")))
           ELSE L
      Assign(L, isConstant, R) ==
        IF R.err # NoError THEN R ELSE Yield(R, Assignment(L.node, isConstant, R.node))
      Lambda(L, isConstant, A, Ps, B) ==
        IF B.err # NoError
        THEN Assign(L, isConstant, invoke("expression", rewind(B, A.position)))
        ELSE Assign(L, isConstant, Yield(B, LambdaExpression(Ps.node, B.node)))
      Closed(L, isConstant, A, Ps, C) ==
        IF C.err = NoError /\ match(C, "ARROW")
        THEN Lambda(L, isConstant, A, Ps, invoke("expression", eat(C, "ARROW")))
        ELSE Assign(L, isConstant, invoke("expression", rewind(C, A.position)))
      Opened(L, isConstant, A, O) ==
        CASE match(O, "RPAREN") ->
               Closed(L, isConstant, A, Yield(O, <<>>), eat(O, "RPAREN"))
          [] match(O, "IDENTIFIER") ->
               LET Listed(Ps) == Closed(L, isConstant, A, Ps, eat(Ps, "RPAREN"))
               IN Listed(identifiers(O, <<>>))
          [] OTHER -> Assign(L, isConstant, invoke("expression", rewind(O, A.position)))
      Right(L, isConstant, A) ==
        IF A.err # NoError THEN A
        ELSE IF match(A, "LPAREN") THEN Opened(L, isConstant, A, eat(A, "LPAREN"))
        ELSE Assign(L, isConstant, invoke("expression", A))
      Assigned(L) ==
        IF L.err # NoError THEN L
        ELSE Right(L, match(L, "CONST_ASSIGN"),
                   eat(L, IF match(L, "CONST_ASSIGN") THEN "CONST_ASSIGN" ELSE "ASSIGN"))
  IN IF S.err # NoError THEN S ELSE Assigned(Members(Left))

\* logicalExpression(), equalityExpression(), relationalExpression(),
\* additiveExpression() and multiplicativeExpression(), the levels 1 to 5:
\* each parses `operand (operator operand)*`, left associative, its
\* operands by the method of the next level, the last by unaryExpression().
\* In the order of execution: the unary expression at S first, then the
\* loop of multiplicativeExpression(), then, with what that has returned as
\* its left operand, the loop of additiveExpression(), and so on up to the
\* loop of the level called.
\* One loop for the operators of every level: each right operand is a unary
\* expression.
RECURSIVE leftAssociativeOneLevel(_, _)
leftAssociativeOneLevel(S, level) ==
  LET operators == {"AND", "OR", "EQUALS", "NOT_EQUALS", "LESS_THAN", "GREATER_THAN",
                    "LESS_THAN_OR_EQUAL", "GREATER_THAN_OR_EQUAL", "PLUS", "MINUS",
                    "MULTIPLY", "DIVIDE", "MODULO"}
      RECURSIVE While(_)
      Joined(L, R) ==
        IF R.err # NoError THEN R
        ELSE While(Yield(R, BinaryExpression(L.currentToken.value, L.node, R.node)))
      While(L) ==
        IF L.err # NoError \/ L.currentToken.type \notin operators THEN L
        ELSE Joined(L, unaryExpression(eat(L, L.currentToken.type)))
  IN While(unaryExpression(S))

RECURSIVE leftAssociative(_, _)
leftAssociative(S, level) ==
  LET operators(k) == CASE k = 1 -> {"AND", "OR"}
                        [] k = 2 -> {"EQUALS", "NOT_EQUALS"}
                        [] k = 3 -> {"LESS_THAN", "GREATER_THAN", "LESS_THAN_OR_EQUAL",
                                     "GREATER_THAN_OR_EQUAL"}
                        [] k = 4 -> {"PLUS", "MINUS"}
                        [] k = 5 -> {"MULTIPLY", "DIVIDE", "MODULO"}
      RECURSIVE While(_, _)
      RECURSIVE Joined(_, _, _)
      Joined(L, R, k) ==
        IF R.err # NoError THEN R
        ELSE While(Yield(R, BinaryExpression(L.currentToken.value, L.node, R.node)), k)
      While(L, k) ==
        IF L.err # NoError THEN L
        ELSE CASE L.currentToken.type \in operators(k) ->
                    Joined(L, IF k = 5 THEN unaryExpression(eat(L, L.currentToken.type))
                              ELSE leftAssociative(eat(L, L.currentToken.type), k + 1), k)
               [] L.currentToken.type \notin operators(k) /\ k > level -> While(L, k - 1)
               [] OTHER -> L
  IN While(unaryExpression(S), 5)

logicalExpression(S) == leftAssociative(S, 1)

\* unaryExpression()
unaryExpression(S) ==
  LET Unary(A) == Yield(A, [type |-> "UnaryExpression", operator |-> S.currentToken.value,
                            argument |-> A.node])
  IN IF S.err # NoError \/ ~(match(S, "NOT") \/ match(S, "MINUS"))
     THEN callMemberExpression(S)
     ELSE Unary(unaryExpression(eat(S, S.currentToken.type)))

\* arguments(): the expressions up to the `)`
arguments(S) ==
  LET RECURSIVE More(_, _)
      Another(N, args) == IF N.err # NoError THEN N ELSE More(N, Append(args, N.node))
      More(A, args) ==
        IF match(A, "COMMA") THEN Another(invoke("expression", eat(A, "COMMA")), args)
        ELSE Yield(A, args)
  IN IF S.err # NoError THEN S
     ELSE IF match(S, "RPAREN") THEN Yield(S, <<>>)
     ELSE Another(invoke("expression", S), <<>>)

\* callExpression(callee), the callee being what S has returned
callExpression(S) ==
  LET Applied(A) == IF A.err # NoError THEN A
                    ELSE Yield(eat(A, "RPAREN"), CallExpression(S.node, A.node))
  IN Applied(arguments(eat(S, "LPAREN")))

\* memberExpression(object, false), the object being what S has returned
memberExpression(S) ==
  LET Member(D) == Yield(eat(D, "IDENTIFIER"),
                         MemberExpression(S.node, Identifier(D.currentToken.value)))
  IN Member(eat(S, "DOT"))

\* callMemberExpression(): a primary expression and its call and member
\* suffixes
callMemberExpression(S) ==
  LET RECURSIVE Suffixes(_)
      Suffixes(E) ==
        IF E.err # NoError THEN E
        ELSE IF match(E, "LPAREN") THEN Suffixes(callExpression(E))
        ELSE IF match(E, "DOT") THEN Suffixes(memberExpression(E))
        ELSE E
  IN Suffixes(primaryExpression(S))

\* primaryExpression(): at `(`, a lambda of bare identifiers is tried
\* first, then, after a rewind, parenthesizedExpression(), a second time
\* when the first try has thrown.
primaryExpression(S) ==
  LET Parenthesized(P) == parenthesizedExpression(rewind(P, S.position))
      Lambda(Ps, B) == Yield(B, LambdaExpression(Ps.node, B.node))
      Closed(Ps, C) ==
        IF C.err # NoError THEN C
        ELSE IF match(C, "ARROW") THEN Lambda(Ps, invoke("expression", eat(C, "ARROW")))
        ELSE Parenthesized(C)
      Listed(Ps) == Closed(Ps, eat(Ps, "RPAREN"))
      Opened(O) ==
        CASE match(O, "RPAREN") -> Closed(Yield(O, <<>>), eat(O, "RPAREN"))
          [] match(O, "IDENTIFIER") -> Listed(identifiers(O, <<>>))
          [] OTHER -> Parenthesized(O)
      Caught(T) == IF T.err = NoError THEN T ELSE Parenthesized(T)
      Named(N) == Yield(N, Identifier("@" \o N.node.name))
  IN IF S.err # NoError THEN S
     ELSE CASE match(S, "NUMBER") -> numberLiteral(S)
            [] match(S, "IDENTIFIER") -> identifier(S)
            [] match(S, "AT") -> Named(identifier(eat(S, "AT")))
            [] match(S, "SELF") -> Yield(eat(S, "SELF"), Identifier("self"))
            [] match(S, "RESULT") -> Yield(eat(S, "RESULT"), Identifier("Result"))
            [] match(S, "LPAREN") -> Caught(Opened(eat(S, "LPAREN")))
            [] match(S, "FUNCTION") -> functionDeclaration(S)
            [] OTHER -> Fail(S, UnexpectedToken)

\* parenthesizedExpression(): `()`, `() => body`, `(expression)` and
\* `(expression) => body`, whose expression must be an identifier
parenthesizedExpression(S) ==
  LET Lambda(params, B) == Yield(B, LambdaExpression(params, B.node))
      Empty(C) ==
        IF match(C, "ARROW") THEN Lambda(<<>>, invoke("expression", eat(C, "ARROW")))
        ELSE Yield(C, BooleanLiteral(TRUE))
      Single(expr, B) ==
        IF B.err # NoError THEN B
        ELSE IF expr.type # "Identifier"
        THEN Fail(B, "Lambda parameter must be an identifier")
        ELSE Lambda(<<expr>>, B)
      Closed(E, C) ==
        IF C.err # NoError THEN C
        ELSE IF match(C, "ARROW")
        THEN Single(E.node, invoke("expression", eat(C, "ARROW")))
        ELSE Yield(C, E.node)
      Inside(E) == IF E.err # NoError THEN E ELSE Closed(E, eat(E, "RPAREN"))
      Opened(O) ==
        IF O.err # NoError THEN O
        ELSE IF match(O, "RPAREN") THEN Empty(eat(O, "RPAREN"))
        ELSE Inside(invoke("expression", O))
  IN Opened(eat(S, "LPAREN"))

\* lambdaExpression(): `(parameters) => body` or `identifier => body`; a
\* parameter in parentheses may have a type annotation or a default value.
lambdaExpression(S) ==
  LET Typed(param, T) == Yield(T, Annotated(param, T.node))
      Default(param, D) == Yield(D, Parameter(param.name, D.node))
      Param(N) ==
        IF N.err # NoError THEN N
        ELSE CASE match(N, "COLON") -> Typed(N.node, parseType(eat(N, "COLON")))
               [] match(N, "ASSIGN") ->
                    Default(N.node, invoke("expression", eat(N, "ASSIGN")))
               [] OTHER -> N
      RECURSIVE More(_, _)
      Another(N, params) == IF N.err # NoError THEN N ELSE More(N, Append(params, N.node))
      Additional(C, params) ==
        IF match(C, "IDENTIFIER") THEN Another(Param(identifier(C)), params)
        ELSE Fail(C, "Expected identifier after comma in lambda parameters")
      More(P, params) ==
        IF match(P, "COMMA") THEN Additional(eat(P, "COMMA"), params)
        ELSE Yield(P, params)
      Opened(O) ==
        CASE match(O, "RPAREN") -> Yield(O, <<>>)
          [] match(O, "IDENTIFIER") -> Another(Param(identifier(O)), <<>>)
          [] OTHER -> Fail(O, "Expected identifier in lambda parameters")
      Bare(N) ==
        IF match(N, "COLON")
        THEN Fail(N, "Parameter type annotations require parentheses")
        ELSE Yield(N, <<N.node>>)
      Parameters ==
        CASE match(S, "LPAREN") -> eat(Opened(eat(S, "LPAREN")), "RPAREN")
          [] match(S, "IDENTIFIER") -> Bare(identifier(S))
          [] OTHER ->
               Fail(S, "Expected parameter list or identifier for lambda expression")
      Lambda(Ps, B) == IF B.err # NoError THEN B
                       ELSE Yield(B, LambdaExpression(Ps.node, B.node))
      Arrow(Ps) == IF Ps.err # NoError THEN Ps
                   ELSE Lambda(Ps, invoke("expression", eat(Ps, "ARROW")))
  IN IF S.err # NoError THEN S ELSE Arrow(Parameters)

\* functionParameters() that reads `:=` after a parameter as it reads `=`.
functionParametersAsDefaults(S) ==
  LET Typed(param, T) == Yield(T, Annotated(param, T.node))
      Default(param, D) == Yield(D, Parameter(param.name, D.node))
      Rest(N, shorthand) ==
        IF N.err # NoError THEN N
        ELSE CASE match(N, "COLON") -> Typed(N.node, parseType(eat(N, "COLON")))
               [] match(N, "ASSIGN") \/ match(N, "CONST_ASSIGN") ->
                    Default(N.node, invoke("expression", eat(N, N.currentToken.type)))
               [] OTHER -> N
      Marked(N) == Yield(N, Shorthand(N.node))
      Param(P) ==
        IF match(P, "AT") THEN Marked(Rest(identifier(eat(P, "AT")), TRUE))
        ELSE Rest(identifier(P), FALSE)
      RECURSIVE More(_, _)
      Another(N, params) == IF N.err # NoError THEN N ELSE More(N, Append(params, N.node))
      More(P, params) ==
        IF match(P, "COMMA") THEN Another(Param(eat(P, "COMMA")), params)
        ELSE Yield(P, params)
      Opened(O) ==
        IF O.err # NoError \/ match(O, "RPAREN") THEN Yield(O, <<>>)
        ELSE Another(Param(O), <<>>)
  IN eat(Opened(eat(S, "LPAREN")), "RPAREN")

\* functionParameters(): `(`, the parameters and `)`.  A parameter is
\* `@name` or `name`, then a type annotation or a default value or
\* nothing; `:=` after a `name` that has no type annotation throws.
functionParameters(S) ==
  LET Typed(param, T) == Yield(T, Annotated(param, T.node))
      Default(param, D) == Yield(D, Parameter(param.name, D.node))
      Rest(N, shorthand) ==
        IF N.err # NoError THEN N
        ELSE CASE match(N, "COLON") -> Typed(N.node, parseType(eat(N, "COLON")))
               [] match(N, "ASSIGN") ->
                    Default(N.node, invoke("expression", eat(N, "ASSIGN")))
               [] ~shorthand /\ match(N, "CONST_ASSIGN") -> Fail(N, ConstantParameter)
               [] OTHER -> N
      Marked(N) == Yield(N, Shorthand(N.node))
      Param(P) ==
        IF match(P, "AT") THEN Marked(Rest(identifier(eat(P, "AT")), TRUE))
        ELSE Rest(identifier(P), FALSE)
      RECURSIVE More(_, _)
      Another(N, params) == IF N.err # NoError THEN N ELSE More(N, Append(params, N.node))
      More(P, params) ==
        IF match(P, "COMMA") THEN Another(Param(eat(P, "COMMA")), params)
        ELSE Yield(P, params)
      Opened(O) ==
        IF O.err # NoError \/ match(O, "RPAREN") THEN Yield(O, <<>>)
        ELSE Another(Param(O), <<>>)
  IN eat(Opened(eat(S, "LPAREN")), "RPAREN")

\* functionBody(): `=> expression`, or the statements up to `end`
functionBody(S) ==
  LET Arrow(A) == IF A.err # NoError THEN A
                  ELSE optionalSemicolon(Yield(A, <<ReturnStatement(A.node)>>))
      RECURSIVE While(_, _)
      Another(N, body) == IF N.err # NoError THEN N ELSE While(N, Append(body, N.node))
      While(B, body) ==
        IF match(B, "END") THEN optionalSemicolon(Yield(eat(B, "END"), body))
        ELSE Another(invoke("statement", B), body)
  IN IF S.err # NoError THEN S
     ELSE IF match(S, "ARROW") THEN Arrow(invoke("expression", eat(S, "ARROW")))
     ELSE While(S, <<>>)

\* functionDeclaration(), which functionExpression() calls: `function`,
\* the name if there is one, the parameters and the body
functionDeclaration(S) ==
  LET Declared(name, Ps, B) ==
        IF B.err # NoError THEN B
        ELSE Yield(B, FunctionDeclaration(name, Ps.node, B.node))
      Body(name, Ps) == IF Ps.err # NoError THEN Ps
                        ELSE Declared(name, Ps, functionBody(Ps))
      Named(N) == Body(N.node, functionParameters(N))
      Function(F) ==
        IF match(F, "IDENTIFIER") THEN Named(identifier(F))
        ELSE Body(NoNode, functionParameters(F))
  IN IF S.err # NoError THEN S ELSE Function(eat(S, "FUNCTION"))

\* constructorDefinition() and methodDefinition(false, false, false), after
\* `constructor` or the name of the method
methodDefinition(S, name, isConstructor) ==
  LET function(Ps, B) == FunctionDeclaration(NoNode, Ps.node, B.node)
      Defined(Ps, B) ==
        IF B.err # NoError THEN B
        ELSE Yield(B, IF isConstructor THEN ConstructorDefinition(function(Ps, B))
                      ELSE MethodDefinition(name, function(Ps, B)))
      Body(Ps) == IF Ps.err # NoError THEN Ps ELSE Defined(Ps, functionBody(Ps))
  IN Body(functionParameters(S))

\* classDeclaration(): `class`, the name and, up to `end`, the constructor,
\* the properties `name = value` and the methods
classDeclaration(S) ==
  LET Assigned(name, isConstant, V) ==
        IF V.err # NoError THEN V
        ELSE optionalSemicolon(Yield(V, [type |-> "PropertyDefinition", name |-> name,
                                         value |-> V.node, isConstant |-> isConstant]))
      Member(B, N) ==
        IF match(N, "ASSIGN") \/ match(N, "CONST_ASSIGN")
        THEN Assigned(N.node, match(N, "CONST_ASSIGN"),
                      invoke("expression", eat(N, N.currentToken.type)))
        ELSE methodDefinition(identifier(rewind(N, B.position)), N.node, FALSE)
      RECURSIVE While(_, _)
      Another(N, body) == IF N.err # NoError THEN N ELSE While(N, Append(body, N.node))
      While(B, body) ==
        CASE match(B, "END") -> optionalSemicolon(Yield(eat(B, "END"), body))
          [] match(B, "CONSTRUCTOR") ->
               Another(methodDefinition(eat(B, "CONSTRUCTOR"),
                                        Identifier("constructor"), TRUE), body)
          [] match(B, "IDENTIFIER") -> Another(Member(B, identifier(B)), body)
          [] OTHER -> Fail(B, "Unexpected token in class body")
      Declared(N, B) == IF B.err # NoError THEN B
                        ELSE Yield(B, ClassDeclaration(N.node, B.node))
      Named(N) == IF N.err # NoError THEN N ELSE Declared(N, While(N, <<>>))
  IN Named(identifier(eat(S, "CLASS")))

\* returnStatement()
returnStatement(S) ==
  LET Return(A) == IF A.err # NoError THEN A
                   ELSE optionalSemicolon(Yield(A, ReturnStatement(A.node)))
      Argument(R) ==
        IF ~match(R, "SEMICOLON") /\ ~match(R, "END") THEN Return(invoke("expression", R))
        ELSE optionalSemicolon(Yield(R, ReturnStatement(NoNode)))
  IN Argument(eat(S, "RETURN"))

\* statement().  At an identifier it reads the identifier and then a type
\* declaration, or `=` or `:=` and the right side of an assignment;
\* otherwise the identifier alone is the statement.
statement(S) ==
  LET Assign(left, isConstant, R) ==
        IF R.err # NoError THEN R
        ELSE optionalSemicolon(Yield(R, Assignment(left, isConstant, R.node)))
      Assigned(N) ==
        Assign(N.node, match(N, "CONST_ASSIGN"),
               invoke("expression", eat(N, N.currentToken.type)))
      Typed(left, isConstant, typeAnnotation, R) ==
        IF R.err # NoError THEN R
        ELSE optionalSemicolon(Yield(R, [type |-> "Assignment", isConstant |-> isConstant,
                                         left |-> left, right |-> R.node,
                                         typeAnnotation |-> typeAnnotation]))
      Declared(name, T) ==
        IF T.err = NoError /\ (match(T, "ASSIGN") \/ match(T, "CONST_ASSIGN"))
        THEN Typed(name, match(T, "CONST_ASSIGN"), T.node,
                   invoke("expression", eat(T, T.currentToken.type)))
        ELSE optionalSemicolon(Yield(T, [type |-> "TypeDeclaration", name |-> name,
                                         typeAnnotation |-> T.node]))
      Identified(N) ==
        CASE match(N, "COLON") -> Declared(N.node, parseType(eat(N, "COLON")))
          [] match(N, "ASSIGN") \/ match(N, "CONST_ASSIGN") -> Assigned(N)
          [] OTHER -> optionalSemicolon(N)
      Expression(E) == IF E.err # NoError THEN E ELSE optionalSemicolon(E)
  IN IF S.err # NoError THEN S
     ELSE CASE match(S, "FUNCTION") -> functionDeclaration(S)
            [] match(S, "CLASS") -> classDeclaration(S)
            [] match(S, "RETURN") -> returnStatement(S)
            [] match(S, "IDENTIFIER") -> Identified(identifier(S))
            [] OTHER -> Expression(invoke("expression", S))

\* this.expression() and this.statement(), as the methods of the parser call
\* them
invoke(method, S) ==
  CASE method = "expression" -> expression(S)
    [] method = "statement" -> statement(S)

(***************************************************************************)
(* The texts parsed.  A text is written as its words; tokenize gives the   *)
(* tokens the Lexer makes of them, the EOF token last.                     *)
(***************************************************************************)
tokenize(words) ==
  LET type(w) ==
        CASE w = "(" -> "LPAREN" [] w = ")" -> "RPAREN" [] w = "," -> "COMMA"
          [] w = "=>" -> "ARROW" [] w = "=" -> "ASSIGN" [] w = ":=" -> "CONST_ASSIGN"
          [] w = "+" -> "PLUS" [] w = "*" -> "MULTIPLY" [] w = "." -> "DOT"
          [] w = "-" -> "MINUS" [] w = "/" -> "DIVIDE" [] w = "%" -> "MODULO"
          [] w = "&&" -> "AND" [] w = "||" -> "OR" [] w = "!" -> "NOT"
          [] w = "==" -> "EQUALS" [] w = "!=" -> "NOT_EQUALS"
          [] w = "<" -> "LESS_THAN" [] w = ">" -> "GREATER_THAN"
          [] w = "<=" -> "LESS_THAN_OR_EQUAL" [] w = ">=" -> "GREATER_THAN_OR_EQUAL"
          [] w = ";" -> "SEMICOLON" [] w = ":" -> "COLON" [] w = "@" -> "AT"
          [] w = "function" -> "FUNCTION" [] w = "end" -> "END"
          [] w = "return" -> "RETURN" [] w = "Result" -> "RESULT" [] w = "self" -> "SELF"
          [] w = "class" -> "CLASS" [] w = "constructor" -> "CONSTRUCTOR"
          [] w \in {"1", "2", "3"} -> "NUMBER"
          [] OTHER -> "IDENTIFIER"
      number(w) == CASE w = "1" -> 1 [] w = "2" -> 2 [] w = "3" -> 3 [] OTHER -> 0
  IN [i \in 1..Len(words) |-> Token(type(words[i]), words[i], number(words[i]))]
     \o <<Token("EOF", "", 0)>>

\* Expressions that begin with `(`: lambdas, parenthesized expressions and
\* texts that are neither.  Those without a second `(` are parsed as a
\* statement, as the right side of an assignment statement and of an
\* assignment expression, as a returned value and as an argument; the
\* others as a statement.
ParenthesizedTexts ==
  LET Expressions ==
        { <<"(", "x", ")", "=>", "x", "*", "x">>,
          <<"(", "1", "+", "2", ")">>,
          <<"(", "x", ",", "y", ")", "=>", "x", "+", "y">>,
          <<"(", "x", ")">>,
          <<"(", ")">>,
          <<"(", ")", "=>", "1">>,
          <<"(", "x", "+", "1", ")", "*", "2">>,
          <<"(", "1", "+", "2", ")", "=>", "3">>,
          <<"(", "x", ",", "1", ")">>,
          <<"(", "x", ",", ")", "=>", "x">>,
          <<"(", "x", "=", "1", ")", "=>", "x">>,
          <<"(", "x", ":", "t", ",", "y", ")", "=>", "x">>,
          <<"(", "x", ")", "=>">>,
          <<"(", "1", "+", "2">>,
          <<"(", "@", "x", ")">>,
          <<"(", "x", ".", "y", ")", "=>", "1">> }
      Nested ==
        { <<"(", "(", "x", ")", ")", "=>", "x">>,
          <<"(", "x", ")", "=>", "(", "y", ")", "=>", "x", "+", "y">>,
          <<"(", "1", "+", "2", ")", "*", "(", "3", ")">>,
          <<"(", "(", "x", ",", "y", ")", "=>", "x", "+", "y", ")",
            "(", "2", ",", "3", ")">>,
          <<"(", "f", ")", "(", "1", ")">>,
          <<"(", "x", ")", "=>", "(", "x", "+", "1", ")", "*", "2">> }
      Contexts(e) ==
        { e \o <<";">>,
          <<"r", "=">> \o e \o <<";">>,
          <<"r", ":=">> \o e,
          <<"Result", "=">> \o e \o <<";">>,
          <<"return", "r", "=">> \o e,
          <<"return">> \o e \o <<";">>,
          <<"r", "=", "g", "(">> \o e \o <<",", "1", ")", ";">>,
          e \o <<";", "s", "=", "1", ";">> }
  IN {tokenize(text) : text \in {e \o <<";">> : e \in Nested}
                                  \cup UNION {Contexts(e) : e \in Expressions}}

\* Statements that begin with an identifier: calls of a function and of a
\* method, alone, in a row and in a function body; and for comparison an
\* assignment of a call, a member and an identifier.
CallTexts ==
  { tokenize(text) :
      text \in { <<"f", "(", "1", ",", "2", ")", ";">>,
                 <<"f", "(", ")", ";">>,
                 <<"f", "(", "1", ")", ";">>,
                 <<"f", "(", "x", ")">>,
                 <<"obj", ".", "m", "(", "x", ")", ";">>,
                 <<"arr", ".", "each", "(", "e", "=>", "g", "(", "e", ")", ")", ";">>,
                 <<"f", "(", "1", ")", ";", "g", "(", "2", ")", ";">>,
                 <<"function", "h", "(", ")", "f", "(", "1", ")", ";", "end">>,
                 <<"r", "=", "f", "(", "1", ",", "2", ")", ";">>,
                 <<"r", "=", "obj", ".", "m", "(", "x", ")", ";">>,
                 <<"r", "=", "arr", ".", "each", "(", "e", "=>", "g", ")", ";">>,
                 <<"obj", ".", "p", ";">>,
                 <<"f", ";">> } }

\* Parameter lists of one and of two parameters, each parameter plain, typed
\* or shorthand and followed by nothing, by a default value or by `:=` and
\* a value, in a named function, a function expression, a constructor, a
\* method, and a lambda assigned and alone.
ParameterTexts ==
  LET Heads(n) == IF n = 1 THEN {<<"a">>, <<"@", "a">>, <<"a", ":", "t">>}
                  ELSE {<<"b">>, <<"@", "b">>, <<"b", ":", "t">>}
      Params(n) == UNION { {name, name \o <<"=", "1">>, name \o <<":=", "1">>} :
                           name \in Heads(n) }
      Lists == Params(1) \cup {p \o <<",">> \o q : p \in Params(1), q \in Params(2)}
      Texts(list) ==
        { <<"function", "f", "(">> \o list \o <<")", "return", "1", ";", "end">>,
          <<"g", "=", "function", "(">> \o list
            \o <<")", "return", "1", ";", "end", ";">>,
          <<"class", "c", "constructor", "(">> \o list \o <<")", "end", "end">>,
          <<"class", "c", "m", "(">> \o list \o <<")", "return", "1", ";", "end", "end">>,
          <<"h", "=", "(">> \o list \o <<")", "=>", "1", ";">>,
          <<"(">> \o list \o <<")", "=>", "1", ";">> }
  IN UNION { {tokenize(text) : text \in Texts(list)} : list \in Lists }

(***************************************************************************)
(* Parser.parse(): the statements are parsed one after the other into the  *)
(* body of the program, which is returned at EOF; a throw ends parse().    *)
(***************************************************************************)
\* `a op1 b op2 c` for every two binary operators, as the right side of an
\* assignment, as a returned value and, a number first, as a statement; and
\* expressions with a unary operator, a call, a member or parentheses among
\* the operands.
BinaryOperators ==
  {"&&", "||", "==", "!=", "<", ">", "<=", ">=", "+", "-", "*", "/", "%"}
PrecedenceTexts ==
  LET Operands == { <<"-", "a", "*", "b">>, <<"!", "a", "==", "b">>,
                    <<"-", "f", "(", "1", ")">>, <<"-", "a", ".", "b">>,
                    <<"a", "*", "-", "b", "+", "c">>,
                    <<"a", ".", "b", "(", "1", ")", "*", "c">>,
                    <<"a", "+", "f", "(", "1", ")", "*", "c">>,
                    <<"(", "a", "+", "b", ")", "*", "c">>,
                    <<"a", "*", "(", "b", "+", "c", ")">>,
                    <<"!", "-", "a", "&&", "b">> }
      Contexts(a, e) == { <<"r", "=", a>> \o e \o <<";">>,
                          <<"return", a>> \o e \o <<";">>,
                          <<"1">> \o e \o <<";">> }
  IN { tokenize(text) :
         text \in UNION { Contexts("a", <<op1, "b", op2, "c">>) :
                            op1 \in BinaryOperators, op2 \in BinaryOperators }
                  \cup { <<"r", "=">> \o e \o <<";">> : e \in Operands } }

InitParser ==
  /\ \E tokens \in ParenthesizedTexts \cup CallTexts \cup ParameterTexts
                   \cup PrecedenceTexts :
       parser = NewParser(tokens)
  /\ envs = <<>> /\ ret = Returned(Null) /\ arrays = <<>>
  /\ binary = [operator |-> "+", left |-> Null, right |-> Null, evaluated |-> "no"]
  /\ funcs = <<>> /\ frames = <<>> /\ callStack = <<>> /\ log = <<>>
  /\ records = <<>> /\ lexer = <<>> /\ store = <<>>

Parsing == parser.err = NoError /\ parser.ast = NoNode

\* program.body.push(this.statement())
ParseStatement ==
  /\ Parsing
  /\ parser.currentToken.type # "EOF"
  /\ LET Pushed(N) == IF N.err # NoError THEN N
                      ELSE [N EXCEPT !.body = Append(@, N.node)]
     IN parser' = Pushed(invoke("statement", parser))
  /\ UNCHANGED <<envs, ret, binary, arrays, funcs, frames, callStack, log, records,
               lexer, store>>

\* return program
ReturnProgram ==
  /\ Parsing
  /\ parser.currentToken.type = "EOF"
  /\ parser' = [parser EXCEPT !.ast = [type |-> "Program", body |-> parser.body]]
  /\ UNCHANGED <<envs, ret, binary, arrays, funcs, frames, callStack, log, records,
               lexer, store>>

NextParser == ParseStatement \/ ReturnProgram

SpecParser == InitParser /\ [][NextParser]_vars

(***************************************************************************)
(* The claims about the Parser.                                            *)
(***************************************************************************)
\* The parser of the tokens with its cursor at position p.
AtPosition(tokens, p) ==
  [NewParser(tokens) EXCEPT !.position = p, !.currentToken = tokens[p + 1]]

\* What a method has done: the failure it has thrown, or the cursor it has
\* left and the node it has returned.
Outcome(S) == IF S.err # NoError THEN <<S.err>>
              ELSE <<NoError, S.position, S.currentToken, S.node>>

\* The names, numbers and operators of an expression, from left to right.
Word(name, number) == [name |-> name, number |-> number]
RECURSIVE WordsOf(_)
WordsOf(node) ==
  LET RECURSIVE Each(_)
      Each(nodes) == IF nodes = <<>> THEN <<>>
                     ELSE WordsOf(Head(nodes)) \o Each(Tail(nodes))
      Annotation == IF "typeAnnotation" \in DOMAIN node
                    THEN <<Word(node.typeAnnotation.name, 0)>> ELSE <<>>
  IN CASE node.type = "NumberLiteral" -> <<Word("", node.number.num)>>
       [] node.type = "Identifier" ->
            <<Word(node.name, 0)>> \o Annotation \o WordsOf(node.defaultValue)
       [] node.type = "BinaryExpression" ->
            WordsOf(node.left) \o <<Word(node.operator, 0)>> \o WordsOf(node.right)
       [] node.type = "Assignment" -> WordsOf(node.left) \o WordsOf(node.right)
       [] node.type = "LambdaExpression" -> Each(node.params) \o WordsOf(node.body)
       [] node.type = "CallExpression" -> WordsOf(node.callee) \o Each(node.arguments)
       [] node.type = "MemberExpression" ->
            WordsOf(node.object) \o WordsOf(node.property)
       [] OTHER -> <<>>

\* The names, numbers and operators among the tokens from position p up to
\* position q; the name after an `@` is read with it.
WordsBetween(tokens, p, q) ==
  LET Words == {"IDENTIFIER", "RESULT", "SELF", "NUMBER", "PLUS", "MULTIPLY"}
      Named(i) == IF i > 1 /\ tokens[i - 1].type = "AT" THEN "@" \o tokens[i].value
                  ELSE tokens[i].value
      WordAt(i) == Word(IF tokens[i].type = "NUMBER" THEN "" ELSE Named(i),
                        tokens[i].number)
      RECURSIVE From(_)
      From(i) == IF i > q THEN <<>>
                 ELSE IF tokens[i].type \in Words THEN <<WordAt(i)>> \o From(i + 1)
                 ELSE From(i + 1)
  IN From(p + 1)

\* The tokens from position p on begin `(`, identifiers separated by commas
\* or nothing, `)`, `=>`: what the lambda attempt of primaryExpression()
\* reads; names are the identifiers.
RECURSIVE BareParameters(_, _)
BareParameters(tokens, i) ==
  IF tokens[i].type # "IDENTIFIER" THEN <<>>
  ELSE IF tokens[i + 1].type = "COMMA" /\ tokens[i + 2].type = "IDENTIFIER"
  THEN <<Identifier(tokens[i].value)>> \o BareParameters(tokens, i + 2)
  ELSE <<Identifier(tokens[i].value)>>
BareLambdaAt(tokens, p) ==
  LET n == Len(BareParameters(tokens, p + 2))
      close == IF n = 0 THEN p + 2 ELSE p + 2 * n + 1
  IN /\ close + 1 <= Len(tokens)
     /\ tokens[close].type = "RPAREN"
     /\ tokens[close + 1].type = "ARROW"

\* C18: where an expression begins with `(`, the parser first tries a
\* lambda.  When lambdaExpression() throws, expression() gives what
\* logicalExpression() gives from the `(`: the cursor is back at exactly
\* that token.  primaryExpression() gives a lambda of the bare identifiers
\* listed before `=>`, and when there is no such list or no `=>`, or the
\* body throws, what parenthesizedExpression() gives from the `(`.  The
\* expression parsed holds, in their order, exactly the names, numbers and
\* operators between the `(` and the cursor: no token is skipped or read
\* twice.  So `(x) => x * x;` is parsed to a lambda of the one parameter x
\* and `(1 + 2);` to the BinaryExpression.
C18_LambdaOrParenthesized ==
  LET x == Identifier("x")
      Tried(S, L, E, P) ==
        /\ L.err # NoError => Outcome(E) = Outcome(logicalExpression(S))
        /\ L.err = NoError => Outcome(E) = Outcome(L) /\ L.node.type = "LambdaExpression"
        /\ \/ Outcome(P) = Outcome(parenthesizedExpression(S))
           \/ /\ BareLambdaAt(S.tokens, S.position)
              /\ P.err = NoError
              /\ P.node.type = "LambdaExpression"
              /\ P.node.params = BareParameters(S.tokens, S.position + 2)
        /\ E.err = NoError =>
             WordsOf(E.node) = WordsBetween(S.tokens, S.position, E.position)
        /\ P.err = NoError =>
             WordsOf(P.node) = WordsBetween(S.tokens, S.position, P.position)
      Meets(S) == Tried(S, lambdaExpression(S), expression(S), primaryExpression(S))
  IN /\ parser # <<>> =>
          \A p \in 0..(Len(parser.tokens) - 1) :
             parser.tokens[p + 1].type = "LPAREN" => Meets(AtPosition(parser.tokens, p))
     /\ (/\ parser # <<>>
         /\ parser.tokens = tokenize(<<"(", "x", ")", "=>", "x", "*", "x", ";">>)
         /\ parser.position > 0)
        => /\ parser.err = NoError
           /\ parser.body = <<LambdaExpression(<<x>>, BinaryExpression("*", x, x))>>
           /\ parser.currentToken.type = "EOF"
     /\ (/\ parser # <<>>
         /\ parser.tokens = tokenize(<<"(", "1", "+", "2", ")", ";">>)
         /\ parser.position > 0)
        => /\ parser.err = NoError
           /\ parser.body = <<BinaryExpression("+", NumberLiteral(1), NumberLiteral(2))>>
           /\ parser.currentToken.type = "EOF"

\* `r = (x + 1) * 2;` has been parsed: the lambda attempts at its `(` have
\* failed at `+`, and the statement is the assignment of the product.
C18_Witness ==
  /\ parser # <<>>
  /\ parser.tokens = tokenize(<<"r", "=", "(", "x", "+", "1", ")", "*", "2", ";">>)
  /\ lambdaExpression(AtPosition(parser.tokens, 2)).err # NoError
  /\ parser.err = NoError
  /\ parser.currentToken.type = "EOF"
  /\ parser.body =
       <<Assignment(Identifier("r"), FALSE,
                    BinaryExpression("*", BinaryExpression("+", Identifier("x"),
                                                            NumberLiteral(1)),
                                     NumberLiteral(2)))>>

\* C19 as stated: a statement that begins with an identifier followed by a
\* call suffix, `f(`, or by a member and a call suffix, `obj.m(`, is parsed
\* to exactly one statement node, a CallExpression whose callee begins with
\* that identifier; the identifier is not split off as a statement of its
\* own.
C19_CallStatement ==
  [][LET tokens == parser.tokens
         p == parser.position
         type(i) == IF p + i <= Len(tokens) THEN tokens[p + i].type ELSE "EOF"
         CallAhead ==
           /\ type(1) = "IDENTIFIER"
           /\ \/ type(2) = "LPAREN"
              \/ type(2) = "DOT" /\ type(3) = "IDENTIFIER" /\ type(4) = "LPAREN"
         statements == parser'.body
         OneCall ==
           /\ parser'.err = NoError
           /\ Len(statements) = Len(parser.body) + 1
           /\ statements[Len(statements)].type = "CallExpression"
           /\ Head(WordsOf(statements[Len(statements)])).name = tokens[p + 1].value
     IN ParseStatement /\ CallAhead => OneCall]_vars

\* The tokens hold a `:=` inside a parameter list: after a parameter of the
\* list opened by the last `(` before it.
ConstantParameterIn(tokens) ==
  \E i \in 2..Len(tokens) :
     /\ tokens[i].type = "CONST_ASSIGN"
     /\ tokens[i - 1].type = "IDENTIFIER"
     /\ \E open \in 1..(i - 1) :
           /\ tokens[open].type = "LPAREN"
           /\ \A k \in open..i : tokens[k].type # "RPAREN"

\* C20: a parameter list of a function, a function expression, a
\* constructor, a method or a lambda in which a parameter, plain, typed or
\* shorthand, first or second, is followed by `:=` makes parse() throw: as
\* long as nothing has been thrown the parser has not reached the end of
\* the tokens, and no Program node is ever returned.
C20_ConstantParameterFails ==
  (/\ parser # <<>>
   /\ parser.tokens \in ParameterTexts
   /\ ConstantParameterIn(parser.tokens))
  => /\ parser.ast = NoNode
     /\ parser.err = NoError => parser.currentToken.type # "EOF"

\* `class c m(a, @b := 1) return 1; end end` has been read up to the `:=`
\* of its shorthand parameter and parse() has thrown; and the parameter
\* list of `function f(a := 1)` throws that parameters cannot be constants.
C20_Witness ==
  /\ parser # <<>>
  /\ parser.tokens = tokenize(<<"class", "c", "m", "(", "a", ",", "@", "b", ":=", "1",
                                ")", "return", "1", ";", "end", "end">>)
  /\ parser.err = UnexpectedToken
  /\ parser.ast = NoNode
  /\ functionParameters(
       AtPosition(tokenize(<<"function", "f", "(", "a", ":=", "1", ")">>), 2)).err
     = ConstantParameter

\* C21 as stated: while the program's top level binds the name of a builtin,
\* an identifier of that name evaluated in the scope of any body in
\* execution (the program, a function, a lambda, a method) reads the value
\* of the program's binding and not the builtin.
C21_UserBindingWins ==
  \A n \in {BuiltinNames[i] : i \in 1..Len(BuiltinNames)} :
     (frames # <<>> /\ n \in DOMAIN envs[GlobalEnv].values) =>
        \A k \in 1..Len(frames) :
           evaluateIdentifier(envs, frames[k].env, n)
             = Returned(envs[GlobalEnv].values[n].value)

(***************************************************************************)
(* JacquesRecord.  A record object is its properties, [key, value] entries *)
(* in insertion order, and the call that made it.  A program reaches Add,  *)
(* Set, Remove and Merge through evaluateMemberExpression, which binds the *)
(* host method to the record, and evaluateCallExpression, which calls it   *)
(* with the values of the arguments: every argument is a JacquesValue.     *)
(***************************************************************************)
MaxRecords == 3   \* record objects at most

RecordObject(properties, op, of, arg) ==
  [properties |-> properties, origin |-> [op |-> op, of |-> of, arg |-> arg]]
RecordRef(id) == [kind |-> "JacquesRecord", object |-> id]

\* The property key the host makes of a value used as one: a JacquesValue
\* has no toString of its own, so Object.prototype.toString answers.
ToPropertyKey(value) == "[object Object]"

\* { ...properties, ...others }
RECURSIVE Spread(_, _)
Spread(properties, others) ==
  IF others = <<>> THEN properties
  ELSE Spread(WithProperty(properties, Head(others).key, Head(others).value),
              Tail(others))

\* delete newProperties[key]
Delete(properties, key) ==
  SelectSeq(properties, LAMBDA entry : entry.key # key)

\* Add(key: JacquesString, value) and Set(key: JacquesString, value):
\* { ...this.properties, [key.value]: value }
RecordWith(properties, key, value) == WithProperty(properties, key.str, value)

\* Remove(key: string), called with the value of the argument
RecordWithout(properties, key) == Delete(properties, ToPropertyKey(key))

\* Merge(other): { ...this.properties, ...other.properties }
RecordMerged(properties, other) == Spread(properties, other)

RecordIds == 1..Len(records)
Allocate(properties, op, of, arg) ==
  /\ Len(records) < MaxRecords
  /\ records' = Append(records, RecordObject(properties, op, of, arg))
  /\ ret' = Returned(RecordRef(Len(records) + 1))
  /\ UNCHANGED <<envs, binary, arrays, funcs, frames, callStack, log, parser, lexer, store>>

RecordAdd(r, key, value) ==
  Allocate(RecordWith(records[r].properties, key, value), "Add", r,
           [key |-> key, value |-> value])

RecordSet(r, key, value) ==
  Allocate(RecordWith(records[r].properties, key, value), "Set", r,
           [key |-> key, value |-> value])

RecordRemove(r, key) ==
  Allocate(RecordWithout(records[r].properties, key), "Remove", r,
           [key |-> key, value |-> Null])

RecordMerge(r, s) ==
  Allocate(RecordMerged(records[r].properties, records[s].properties), "Merge", r,
           [key |-> Null, value |-> RecordRef(s)])

\* The literals `{}`, `{a: ..}`, `{a: .., b: ..}`, `{b: .., a: ..}`, and one
\* with the key the host makes of an object.
RecordLiterals ==
  LET Values == {Num(1), Str("x")}
      Entry(k, v) == [key |-> k, value |-> v]
  IN {<<>>} \cup {<<Entry(k, v)>> : k \in {"a", "b", "[object Object]"}, v \in Values}
     \cup {<<Entry(keys[1], v), Entry(keys[2], Num(2))>> :
             keys \in {<<"a", "b">>, <<"b", "a">>}, v \in Values}

InitRecord ==
  /\ \E first \in RecordLiterals, second \in RecordLiterals :
       records = << RecordObject(first, "literal", 0, Null),
                    RecordObject(second, "literal", 0, Null) >>
  /\ ret = Returned(RecordRef(1))
  /\ envs = <<>> /\ arrays = <<>> /\ parser = <<>> /\ lexer = <<>> /\ store = <<>>
  /\ binary = [operator |-> "+", left |-> Null, right |-> Null, evaluated |-> "no"]
  /\ funcs = <<>> /\ frames = <<>> /\ callStack = <<>> /\ log = <<>>

NextRecord ==
  \/ \E r \in RecordIds, k \in {Str("a"), Str("b")}, v \in {Num(3)} : RecordAdd(r, k, v)
  \/ \E r \in RecordIds, k \in {Str("a"), Str("b")}, v \in {Num(3)} : RecordSet(r, k, v)
  \/ \E r \in RecordIds, k \in {Str("a"), Str("b")} : RecordRemove(r, k)
  \/ \E r \in RecordIds, s \in RecordIds : RecordMerge(r, s)

SpecRecord == InitRecord /\ [][NextRecord]_vars

\* The keys of a record and the value it holds under a key.
KeysOf(properties) == {properties[i].key : i \in 1..Len(properties)}
ValueOf(properties, key) ==
  properties[CHOOSE i \in 1..Len(properties) : properties[i].key = key].value

\* C22 as stated: no call of Add, Set, Remove or Merge changes a record that
\* exists, receiver and argument included, and the record it returns holds,
\* for r.Add(k, v) and r.Set(k, v), the properties of r with k mapped to v;
\* for r.Remove(k), the properties of r without k; for r.Merge(s), the
\* properties of r and of s, with the value of s for the keys of both.
C22_RecordOperations ==
  [][/\ \A i \in RecordIds : records'[i] = records[i]
     /\ Len(records') = Len(records) + 1 =>
          LET new == records'[Len(records')]
              this == records[new.origin.of].properties
              k == new.origin.arg.key
              result == new.properties
              Kept(keys) == \A key \in keys : ValueOf(result, key) = ValueOf(this, key)
          IN CASE new.origin.op \in {"Add", "Set"} ->
                    /\ KeysOf(result) = KeysOf(this) \cup {k.str}
                    /\ ValueOf(result, k.str) = new.origin.arg.value
                    /\ Kept(KeysOf(this) \ {k.str})
               [] new.origin.op = "Remove" ->
                    /\ KeysOf(result) = KeysOf(this) \ {k.str}
                    /\ Kept(KeysOf(result))
               [] new.origin.op = "Merge" ->
                    LET other == records[new.origin.arg.value.object].properties
                    IN /\ KeysOf(result) = KeysOf(this) \cup KeysOf(other)
                       /\ \A key \in KeysOf(other) :
                             ValueOf(result, key) = ValueOf(other, key)
                       /\ Kept(KeysOf(this) \ KeysOf(other))
    ]_vars

\* The level of a binary operator, 1 the loosest.
LevelOf(operator) ==
  CASE operator \in {"&&", "||"} -> 1
    [] operator \in {"==", "!="} -> 2
    [] operator \in {"<", ">", "<=", ">="} -> 3
    [] operator \in {"+", "-"} -> 4
    [] operator \in {"*", "/", "%"} -> 5

\* The expression of a statement: the right side of an assignment, the
\* argument of a return, or the statement itself.
ExpressionOf(node) ==
  CASE node.type = "Assignment" -> node.right
    [] node.type = "ReturnStatement" -> node.argument
    [] OTHER -> node

\* C23: for every two binary operators, `a op1 b op2 c` is parsed, wherever
\* an expression is parsed, to the BinaryExpression whose root is op1 with
\* `b op2 c` as its right child when op2 is of a tighter level than op1, and
\* else, op2 looser or of the same level, to the one whose root is op2 with
\* `a op1 b` as its left child.  A unary operator binds its operand before
\* any binary operator does, a call or a member access binds before a unary
\* operator, and parentheses before everything.
C23_Precedence ==
  LET Binary(operator, left, right) == BinaryExpression(operator, left, right)
      Unary(operator, argument) ==
        [type |-> "UnaryExpression", operator |-> operator, argument |-> argument]
      a == Identifier("a")
      b == Identifier("b")
      c == Identifier("c")
      one == NumberLiteral(1)
      f1 == CallExpression(Identifier("f"), <<one>>)
      Parsed(words, node) ==
        (/\ parser.tokens = tokenize(<<"r", "=">> \o words \o <<";">>)
         /\ parser.position > 0)
        => /\ parser.err = NoError
           /\ parser.body = <<Assignment(Identifier("r"), FALSE, node)>>
      Climbed(first, op1, op2) ==
        IF LevelOf(op2) > LevelOf(op1)
        THEN Binary(op1, first, Binary(op2, b, c))
        ELSE Binary(op2, Binary(op1, first, b), c)
      Chain(S, first, op1, op2) ==
        /\ Outcome(logicalExpression(S))
             = <<NoError, S.position + 5, S.tokens[S.position + 6],
                 Climbed(first, op1, op2)>>
        /\ parser.position > 0
           => /\ parser.err = NoError
              /\ Len(parser.body) = 1
              /\ ExpressionOf(parser.body[1]) = Climbed(first, op1, op2)
      Written(head, first, n) ==
        LET op1 == parser.tokens[n + 2].value
            op2 == parser.tokens[n + 4].value
        IN (/\ Len(parser.tokens) = n + 7
            /\ op1 \in BinaryOperators
            /\ op2 \in BinaryOperators
            /\ parser.tokens = tokenize(head \o <<op1, "b", op2, "c", ";">>))
           => Chain(AtPosition(parser.tokens, n), first, op1, op2)
  IN parser # <<>> =>
     /\ Written(<<"r", "=", "a">>, a, 2)
     /\ Written(<<"return", "a">>, a, 1)
     /\ Written(<<"1">>, one, 0)
     /\ Parsed(<<"-", "a", "*", "b">>, Binary("*", Unary("-", a), b))
     /\ Parsed(<<"!", "a", "==", "b">>, Binary("==", Unary("!", a), b))
     /\ Parsed(<<"!", "-", "a", "&&", "b">>, Binary("&&", Unary("!", Unary("-", a)), b))
     /\ Parsed(<<"-", "f", "(", "1", ")">>, Unary("-", f1))
     /\ Parsed(<<"-", "a", ".", "b">>, Unary("-", MemberExpression(a, b)))
     /\ Parsed(<<"a", "*", "-", "b", "+", "c">>,
               Binary("+", Binary("*", a, Unary("-", b)), c))
     /\ Parsed(<<"a", ".", "b", "(", "1", ")", "*", "c">>,
               Binary("*", CallExpression(MemberExpression(a, b), <<one>>), c))
     /\ Parsed(<<"a", "+", "f", "(", "1", ")", "*", "c">>,
               Binary("+", a, Binary("*", f1, c)))
     /\ Parsed(<<"(", "a", "+", "b", ")", "*", "c">>, Binary("*", Binary("+", a, b), c))
     /\ Parsed(<<"a", "*", "(", "b", "+", "c", ")">>, Binary("*", a, Binary("+", b, c)))

\* `r = a + b * c;` and `r = a * b + c;` and `r = a - b - c;`: one of them
\* has been parsed, to the sum of a and the product, to the sum of the
\* product and c, or to the difference of the difference and c.
C23_Witness ==
  LET a == Identifier("a")
      b == Identifier("b")
      c == Identifier("c")
      Is(op1, op2, node) ==
        /\ parser.tokens = tokenize(<<"r", "=", "a", op1, "b", op2, "c", ";">>)
        /\ parser.body = <<Assignment(Identifier("r"), FALSE, node)>>
  IN /\ parser # <<>>
     /\ parser.err = NoError
     /\ parser.currentToken.type = "EOF"
     /\ \/ Is("+", "*", BinaryExpression("+", a, BinaryExpression("*", b, c)))
        \/ Is("*", "+", BinaryExpression("+", BinaryExpression("*", a, b), c))
        \/ Is("-", "-", BinaryExpression("-", BinaryExpression("-", a, b), c))

\* C24: define(name, value, constantBinding) on a scope binds name there to
\* the value with that flag, whether or not the scope had a binding of it,
\* and changes nothing else: every other binding of the scope and every
\* other scope, the enclosing ones and their binding of the same name
\* included, is as before; getAll() of the scope then shows the value under
\* the name, and getAll() of the enclosing scope what it showed before.
C24_DefineFrame ==
  [][\A e \in EnvIds, b \in Stored :
       EnvDefine(e, b[1][1], b[1][2], b[2]) =>
         /\ Len(envs') = Len(envs)
         /\ DOMAIN envs'[e].values = (DOMAIN envs[e].values) \cup {b[1][1]}
         /\ envs'[e].values[b[1][1]] = StoredValue(b[1][2], b[2])
         /\ \A n \in (DOMAIN envs[e].values) \ {b[1][1]} :
               envs'[e].values[n] = envs[e].values[n]
         /\ envs'[e].enclosing = envs[e].enclosing
         /\ \A o \in EnvIds \ {e} : envs'[o] = envs[o]
         /\ getAll(envs', e)[b[1][1]] = b[1][2]
         /\ envs[e].enclosing # 0 =>
              getAll(envs', envs[e].enclosing) = getAll(envs, envs[e].enclosing)
    ]_vars

\* x has been defined in a scope whose enclosing scope binds x as a constant
\* to another value: the inner binding shadows the outer, which is kept.
C24_Witness ==
  /\ Len(envs) = 2
  /\ envs[2].enclosing = 1
  /\ "x" \in DOMAIN envs[1].values
  /\ "x" \in DOMAIN envs[2].values
  /\ envs[1].values["x"] = StoredValue(Num(1), TRUE)
  /\ envs[2].values["x"] = StoredValue(Num(2), FALSE)
  /\ getAll(envs, 2)["x"] = Num(2)
  /\ getAll(envs, 1)["x"] = Num(1)

(***************************************************************************)
(* The order of evaluation.                                                *)
(***************************************************************************)
\* The top-level scope binds the name to the value.
BoundTo(E, name, value) ==
  /\ name \in DOMAIN E[GlobalEnv].values
  /\ E[GlobalEnv].values[name].value = value

\* An assignment of the value to the name at top level is accepted: the name
\* is unbound, or bound mutable to a value of the same class.
Accepts(E, name, value) ==
  \/ name \notin DOMAIN E[GlobalEnv].values
  \/ /\ ~E[GlobalEnv].values[name].constantBinding
     /\ E[GlobalEnv].values[name].value.kind = value.kind

\* The value a literal stands for
LiteralValue(node) ==
  CASE node.type = "NumberLiteral" -> node.number
    [] node.type = "BooleanLiteral" -> Bool(node.boolean)
    [] node.type = "StringLiteral" -> Str(node.string)

\* C25: a statement `r = (p = a) op (q = b);` at top level evaluates the
\* left operand and then the right one, whatever the operator and whatever
\* the left operand evaluates to, `&&` and `||` included.  When both
\* assignments are accepted, p and q hold a and b after the statement, and
\* b when q is p, even when the operator then throws; when only the left
\* one is accepted, p holds a and the statement throws; when the left one
\* is rejected, nothing is assigned.  A statement `r = c((x = 1), (q = 2));`
\* assigns nothing when c is unbound; else both arguments are evaluated,
\* from left to right, before the body of c starts with the arguments 1 and
\* 2 or before the call throws that c is not a function.
C25_EagerOperands ==
  [][LET node == Statement.right
         p == node.left.left.name
         q == node.right.left.name
         a == LiteralValue(node.left.right)
         b == LiteralValue(node.right.right)
         RightAccepted == IF q = p THEN a.kind = b.kind ELSE Accepts(envs, q, b)
         Operands ==
           IF ~Accepts(envs, p, a)
           THEN envs' = envs /\ ret'.err \in {ConstantReassignment, TypeMismatch}
           ELSE IF ~RightAccepted
           THEN /\ BoundTo(envs', p, a)
                /\ ret'.err \in {ConstantReassignment, TypeMismatch}
                /\ q # p => envs'[GlobalEnv].values[q] = envs[GlobalEnv].values[q]
           ELSE /\ BoundTo(envs', q, b)
                /\ q # p => BoundTo(envs', p, a)
         callee == node.callee.name
         first == node.arguments[1].left.name
         second == node.arguments[2].left.name
         Arguments ==
           IF ~has(envs, GlobalEnv, callee)
           THEN envs' = envs /\ ret' = Thrown(UndefinedVariable)
           ELSE /\ BoundTo(envs', second, Num(2))
                /\ second # first => BoundTo(envs', first, Num(1))
                /\ IF get(envs, GlobalEnv, callee).val.kind = "JacquesFunction"
                   THEN /\ Len(frames') = Len(frames) + 1
                        /\ frames'[Len(frames')].pc = 1
                        /\ frames'[Len(frames')].args = <<Num(1), Num(2)>>
                   ELSE ret' = Thrown(NotAFunction) /\ frames' = <<>>
     IN /\ (/\ ExecuteStatement
            /\ Top.kind = "program"
            /\ Statement.type = "Assignment"
            /\ node.type = "BinaryExpression"
            /\ node.left.type = "Assignment"
            /\ node.right.type = "Assignment") => Operands
        /\ (/\ NextProgram
            /\ AtCall
            /\ Top.kind = "program"
            /\ Statement.type = "Assignment"
            /\ Len(node.arguments) = 2
            /\ node.arguments[1].type = "Assignment"
            /\ node.arguments[2].type = "Assignment") => Arguments]_vars

\* `r = (x = false) && (y = true);` has been executed: r is false, and y is
\* true though the left operand of `&&` was false; and
\* `r = (x = true) || (x = false);` has left x false.
C25_Witness ==
  /\ frames # <<>>
  /\ Top.kind = "program"
  /\ Top.pc > 1
  /\ Top.body[Top.pc - 1].type = "Assignment"
  /\ Top.body[Top.pc - 1].right.type = "BinaryExpression"
  /\ Top.body[Top.pc - 1].right.operator = "&&"
  /\ Top.body[Top.pc - 1].right.left.type = "Assignment"
  /\ BoundTo(envs, "r", Bool(FALSE))
  /\ BoundTo(envs, "x", Bool(FALSE))
  /\ BoundTo(envs, "y", Bool(TRUE))

\* C26 as stated: the instance a constructor body runs on holds exactly the
\* instance-level members of its class: one property per instance method,
\* a function value, and nothing else; in particular no property `name`,
\* the default static property of the class.
C26_InstanceMembers ==
  \A k \in 1..Len(frames) :
     frames[k].kind = "constructor" =>
       LET instance == frames[k].args[1]
           class == funcs[frames[k].func].currentClass
           keys(entries) == {entries[i].key : i \in 1..Len(entries)}
       IN /\ keys(instance.properties) = keys(class.methods)
          /\ \A i \in 1..Len(instance.properties) :
                instance.properties[i].value.kind = "JacquesFunction"

\* C27 as stated: a binding with the constant flag stays as it is in every
\* step of a program: the scope that holds it keeps the name bound to the
\* same value, with the flag.
C27_ConstantStays ==
  [][\A e \in 1..Len(envs) :
        \A name \in DOMAIN envs[e].values :
           envs[e].values[name].constantBinding =>
             /\ name \in DOMAIN envs'[e].values
             /\ envs'[e].values[name] = envs[e].values[name]]_vars

(***************************************************************************)
(* The constant flag of a value.  A JacquesValue is an object of the host; *)
(* evaluateAssignment sets its property constantValue when it binds a new  *)
(* name and visitUpdateExpression reads it.  An object is its index in     *)
(* store.objects, and a binding of store.values holds the index: two names *)
(* bound to the value of one identifier refer to one object.  The property *)
(* of an object on which it was never set is undefined, which every check  *)
(* reads as false, as it reads the missing third argument of define.       *)
(***************************************************************************)
MaxObjects == 4   \* JacquesNumber objects at most
MaxValue == 6     \* the greatest number `++` is applied to

NotDefined == "Variable is not defined"
ConstantUpdate == "Cannot update constant variable"

\* new JacquesNumber(value)
JacquesNumber(value) == [value |-> value, constantValue |-> FALSE]

\* evaluate(node, env) of a NumberLiteral, a fresh object, and of an
\* Identifier, the object the name is bound to
evaluateOperand(S, node) ==
  IF node.type = "NumberLiteral"
  THEN [objects |-> Append(S.objects, JacquesNumber(node.number.num)),
        value |-> Len(S.objects) + 1, err |-> NoError]
  ELSE IF node.name \in DOMAIN S.values
  THEN [objects |-> S.objects, value |-> S.values[node.name].value, err |-> NoError]
  ELSE [objects |-> S.objects, value |-> 0, err |-> UndefinedVariable]

\* evaluateAssignment(node, env) in the top-level scope, on numbers: a bound
\* name is assigned, Environment.assign throwing for a constant binding; an
\* unbound one is defined after valueResult.constantValue = isConstant
evaluateAssignment(S, node) ==
  LET name == node.left.name
      valueResult == evaluateOperand(S, node.right)
  IN IF valueResult.err # NoError THEN [S EXCEPT !.err = valueResult.err]
     ELSE IF name \in DOMAIN S.values
     THEN IF S.values[name].constantBinding
          THEN [S EXCEPT !.objects = valueResult.objects, !.err = ConstantReassignment]
          ELSE [objects |-> valueResult.objects,
                values |-> [S.values EXCEPT ![name].value = valueResult.value],
                err |-> NoError]
     ELSE [objects |-> [valueResult.objects EXCEPT
                          ![valueResult.value].constantValue = node.isConstant],
           values |-> MapSet(S.values, name,
                             StoredValue(valueResult.value, node.isConstant)),
           err |-> NoError]

\* visitUpdateExpression(node, env) for postfix `++` on an identifier
visitUpdateExpression(S, variableName) ==
  LET currentValue == S.objects[S.values[variableName].value]
      newValue == [JacquesNumber(currentValue.value + 1) EXCEPT
                     !.constantValue = currentValue.constantValue]
  IN IF variableName \notin DOMAIN S.values THEN [S EXCEPT !.err = NotDefined]
     ELSE IF currentValue.constantValue THEN [S EXCEPT !.err = ConstantUpdate]
     ELSE [objects |-> Append(S.objects, newValue),
           values |-> MapSet(S.values, variableName,
                             StoredValue(Len(S.objects) + 1, FALSE)),
           err |-> NoError]

\* evaluateTypeDeclaration(node, env) for `name: Number`
declareNumber(S, name) ==
  [objects |-> Append(S.objects, JacquesNumber(0)),
   values |-> MapSet(S.values, name, StoredValue(Len(S.objects) + 1, FALSE)),
   err |-> NoError]

StoreStep(S) ==
  /\ store' = S
  /\ UNCHANGED <<envs, ret, binary, arrays, funcs, frames, callStack, log, parser,
                 records, lexer>>

\* `name = right;` or `name := right;`
StoreAssign(name, isConstant, right) ==
  /\ Len(store.objects) < MaxObjects
  /\ StoreStep(evaluateAssignment(store,
                                  Assignment(Identifier(name), isConstant, right)))

\* `name++;`
StoreUpdate(name) ==
  /\ Len(store.objects) < MaxObjects
  /\ name \in DOMAIN store.values =>
       store.objects[store.values[name].value].value < MaxValue
  /\ StoreStep(visitUpdateExpression(store, name))

\* `name: Number;`
StoreDeclare(name) ==
  /\ Len(store.objects) < MaxObjects
  /\ StoreStep(declareNumber(store, name))

StoreNames == {"a", "b"}

InitStore ==
  /\ store = [objects |-> <<>>, values |-> <<>>, err |-> NoError]
  /\ ret = Returned(Null)
  /\ envs = <<>> /\ arrays = <<>> /\ parser = <<>> /\ lexer = <<>> /\ records = <<>>
  /\ binary = [operator |-> "+", left |-> Null, right |-> Null, evaluated |-> "no"]
  /\ funcs = <<>> /\ frames = <<>> /\ callStack = <<>> /\ log = <<>>

NextStore ==
  \/ \E name \in StoreNames, isConstant \in BOOLEAN,
        right \in {NumberLiteral(5)} \cup {Identifier(n) : n \in StoreNames} :
       StoreAssign(name, isConstant, right)
  \/ \E name \in StoreNames : StoreUpdate(name)
  \/ \E name \in StoreNames : StoreDeclare(name)

SpecStore == InitStore /\ [][NextStore]_vars

\* C28 as stated: after any sequence of assignments, declarations and
\* updates, the constant flag of the value a binding holds equals the
\* constant flag of the binding.
C28_FlagOfValue ==
  store # <<>> =>
    \A name \in DOMAIN store.values :
       store.objects[store.values[name].value].constantValue
         = store.values[name].constantBinding

\* C29: the call stack holds exactly the Environments of the function and
\* lambda invocations in progress, outermost first: its depth is their
\* number whatever has returned, thrown or been caught before, and it is
\* empty when the program is at a top-level statement or has ended.
C29_BalancedCallStack ==
  LET Calls == {k \in 1..Len(frames) : frames[k].kind \in {"function", "lambda"}}
      Rank(k) == Cardinality({j \in Calls : j <= k})
  IN /\ Len(callStack) = Cardinality(Calls)
     /\ \A k \in Calls : callStack[Rank(k)] = frames[k].env
     /\ Len(frames) <= 1 => callStack = <<>>

\* A function body is in execution inside a constructor body, the call
\* stack holding its Environment alone, after a call in the same program
\* has returned.
C29_Witness ==
  /\ Len(frames) >= 3
  /\ Top.kind \in {"function", "lambda"}
  /\ \E k \in 1..Len(frames) : frames[k].kind = "constructor"
  /\ callStack = <<Top.env>>

(***************************************************************************)
(* The Lexer.  The input is a sequence of characters, each a string of     *)
(* length one; position counts from 0 and currentChar is input[position],  *)
(* NoChar for null.  The inputs are written in the alphabet of a letter,   *)
(* `/`, `+`, the space and the newline, so of getNextToken the cases of    *)
(* the end of input, identifiers, `++`, `+`, `/` and whitespace are the    *)
(* ones translated; every other character is the unexpected one.           *)
(***************************************************************************)
MaxInput == 5   \* characters of an input at most

NoChar == ""
Alphabet == {"a", "/", "+", " ", "\n"}
Whitespace == {" ", "\n"}
Letters == {"a"}

UnexpectedCharacter == "Unexpected character"

LexToken(type, value, line, column) ==
  [type |-> type, value |-> value, line |-> line, column |-> column]

\* new Lexer(input)
Lexer(input) ==
  [input |-> input, position |-> 0, line |-> 1, column |-> 1,
   currentChar |-> IF Len(input) > 0 THEN input[1] ELSE NoChar,
   tokens |-> <<>>, done |-> FALSE, err |-> NoError]

\* advance()
advance(L) ==
  [L EXCEPT !.position = @ + 1,
            !.line = IF L.currentChar = "\n" THEN @ + 1 ELSE @,
            !.column = IF L.currentChar = "\n" THEN 1 ELSE @ + 1,
            !.currentChar = IF L.position + 1 >= Len(L.input) THEN NoChar
                            ELSE L.input[L.position + 2]]

\* peek(n)
peek(L, n) ==
  IF L.position + n >= Len(L.input) THEN NoChar ELSE L.input[L.position + n + 1]

\* skipWhitespace()
RECURSIVE skipWhitespace(_)
skipWhitespace(L) ==
  IF L.currentChar \in Whitespace THEN skipWhitespace(advance(L)) ELSE L

\* skipComment(): at `//`, skip to the end of the line and over its newline
skipComment(L) ==
  LET RECURSIVE ToEndOfLine(_)
      ToEndOfLine(M) ==
        IF M.currentChar = NoChar \/ M.currentChar = "\n" THEN M
        ELSE ToEndOfLine(advance(M))
      Newline(M) == IF M.currentChar = "\n" THEN advance(M) ELSE M
  IN IF L.currentChar = "/" /\ peek(L, 1) = "/"
     THEN Newline(ToEndOfLine(advance(advance(L))))
     ELSE L

\* identifier(): the run of letters from the current character on; none of
\* the keywords is written in the alphabet
lexIdentifier(L) ==
  LET RECURSIVE Run(_, _)
      Run(M, result) ==
        IF M.currentChar \in Letters THEN Run(advance(M), result \o M.currentChar)
        ELSE [lexer |-> M, token |-> LexToken("IDENTIFIER", result, L.line, L.column)]
  IN Run(L, "")

\* getNextToken(): the Lexer after the call and the token returned
RECURSIVE getNextToken(_)
getNextToken(L) ==
  LET Returns(M, type, value, start) ==
        [lexer |-> M, token |-> LexToken(type, value, start.line, start.column)]
      At(M) ==
        CASE M.currentChar = NoChar -> Returns(M, "EOF", "", M)
          [] M.currentChar \in Letters -> lexIdentifier(M)
          [] M.currentChar = "+" /\ peek(M, 1) = "+" ->
               Returns(advance(advance(M)), "INCREMENT", "++", M)
          [] M.currentChar = "+" /\ peek(M, 1) # "+" -> Returns(advance(M), "PLUS", "+", M)
          [] M.currentChar = "/" -> Returns(advance(M), "DIVIDE", "/", M)
          [] M.currentChar \in Whitespace -> getNextToken(advance(M))
          [] OTHER -> Returns([M EXCEPT !.err = UnexpectedCharacter], "EOF", "", M)
  IN At(skipComment(skipWhitespace(L)))

\* One round of the loop of tokenize(): the next token is pushed; EOF ends
\* the loop.
pushNextToken(L) ==
  LET next == getNextToken(L)
  IN [next.lexer EXCEPT !.tokens = IF next.lexer.err # NoError THEN @
                                   ELSE Append(@, next.token),
                        !.done = next.token.type = "EOF"]

Inputs == UNION {[1..n -> Alphabet] : n \in 0..MaxInput}

InitLexer ==
  /\ \E input \in Inputs : lexer = Lexer(input)
  /\ ret = Returned(Null)
  /\ envs = <<>> /\ arrays = <<>> /\ parser = <<>> /\ records = <<>> /\ store = <<>>
  /\ binary = [operator |-> "+", left |-> Null, right |-> Null, evaluated |-> "no"]
  /\ funcs = <<>> /\ frames = <<>> /\ callStack = <<>> /\ log = <<>>

PushNextToken ==
  /\ lexer # <<>>
  /\ ~lexer.done
  /\ lexer' = pushNextToken(lexer)
  /\ UNCHANGED <<envs, ret, binary, arrays, funcs, frames, callStack, log, parser,
                 records, store>>

NextLexer == PushNextToken

SpecLexer == InitLexer /\ [][NextLexer]_vars

\* The input with its comments removed: every `//` and what follows it on
\* its line is left out, the newline is kept.
RECURSIVE WithoutComments(_)
WithoutComments(input) ==
  LET RECURSIVE RestOfLine(_)
      RestOfLine(text) == IF text = <<>> \/ Head(text) = "\n" THEN text
                          ELSE RestOfLine(Tail(text))
  IN IF input = <<>> THEN <<>>
     ELSE IF Len(input) >= 2 /\ input[1] = "/" /\ input[2] = "/"
     THEN WithoutComments(RestOfLine(input))
     ELSE <<Head(input)>> \o WithoutComments(Tail(input))

\* tokenize() of a new Lexer(input), as types and values
RECURSIVE Tokenized(_)
Tokenized(L) == IF L.done THEN L ELSE Tokenized(pushNextToken(L))
TypesAndValues(tokens) ==
  [i \in 1..Len(tokens) |-> <<tokens[i].type, tokens[i].value>>]

\* C30 as stated: when tokenize() has returned, the tokens are, by type
\* and value, those of the input with its comments removed, and the EOF
\* token is the last of them and the only one.
C30_CommentsMakeNoToken ==
  (lexer # <<>> /\ lexer.done) =>
     /\ TypesAndValues(lexer.tokens)
          = TypesAndValues(Tokenized(Lexer(WithoutComments(lexer.input))).tokens)
     /\ lexer.tokens[Len(lexer.tokens)].type = "EOF"
     /\ \A i \in 1..(Len(lexer.tokens) - 1) : lexer.tokens[i].type # "EOF"

====
